---- MODULE Spec2Model ----
(***************************************************************************)
(* Model of the docs3 conversion scripts: the notebook-to-MDX converter    *)
(* (scripts/jupyter_to_docusaurus.py), the MDX brace sanitizers            *)
(* (scripts/clean_mdx.py, scripts/generate_autodoc.py, scripts/fix_mdx.py, *)
(* fix_mdx_issues.py), the docstring cleaner of scripts/complete_autodoc.py *)
(* and the batch drivers (docs/jupyter/convert_md_to_mdx.py and the main    *)
(* functions of fix_mdx_issues.py and scripts/clean_mdx.py), the page       *)
(* generator scripts/generate_function_docs.py, the frontmatter scripts     *)
(* scripts/add_frontmatter.py and scripts/add_frontmatter_md.py, and        *)
(* scripts/simple_convert.py.                                               *)
(* A text is a sequence of one-character strings; the backtick, which a     *)
(* TLA+ string cannot hold, is the character written "bt".                  *)
(***************************************************************************)
EXTENDS Integers, Sequences, FiniteSets, TLC

(***************************************************************************)
(* Characters and the str methods the scripts call                          *)
(***************************************************************************)
LowerSeq == <<"a","b","c","d","e","f","g","h","i","j","k","l","m",
              "n","o","p","q","r","s","t","u","v","w","x","y","z">>

UpperSeq == <<"A","B","C","D","E","F","G","H","I","J","K","L","M",
              "N","O","P","Q","R","S","T","U","V","W","X","Y","Z">>

Digits == {"0","1","2","3","4","5","6","7","8","9"}

IsLower(c) == \E i \in 1..Len(LowerSeq) : LowerSeq[i] = c

IsUpper(c) == \E i \in 1..Len(UpperSeq) : UpperSeq[i] = c

IsAlpha(c) == IsLower(c) \/ IsUpper(c)

to_upper(c) ==
    IF IsLower(c) THEN UpperSeq[CHOOSE i \in 1..Len(LowerSeq) : LowerSeq[i] = c] ELSE c

to_lower(c) ==
    IF IsUpper(c) THEN LowerSeq[CHOOSE i \in 1..Len(UpperSeq) : UpperSeq[i] = c] ELSE c

\* Python's whitespace class (str.strip, regex \s), on the characters modelled.
IsSpace(c) == c \in {" ", "\n", "\r", "\t"}

MinOf(S) == CHOOSE m \in S : \A n \in S : m <= n

MaxOf(S) == CHOOSE m \in S : \A n \in S : m >= n

\* s[a:] of Python in 1-based inclusive form.
From(s, a) == SubSeq(s, a, Len(s))

\* ''.join(parts), by halves to keep the evaluation shallow.
RECURSIVE Flatten(_)
Flatten(parts) ==
    IF parts = <<>> THEN <<>>
    ELSE IF Len(parts) = 1 THEN parts[1]
    ELSE LET h == Len(parts) \div 2
         IN  Flatten(SubSeq(parts, 1, h)) \o Flatten(SubSeq(parts, h + 1, Len(parts)))

\* sep.join(parts)
RECURSIVE join(_, _)
join(parts, sep) ==
    IF parts = <<>> THEN <<>>
    ELSE IF Len(parts) = 1 THEN parts[1]
    ELSE parts[1] \o sep \o join(Tail(parts), sep)

\* s.split(c) for a one-character separator: one piece more than separators.
RECURSIVE split(_, _)
split(s, c) ==
    LET at == {i \in 1..Len(s) : s[i] = c}
    IN  IF at = {} THEN <<s>>
        ELSE <<SubSeq(s, 1, MinOf(at) - 1)>> \o split(From(s, MinOf(at) + 1), c)

\* s.replace(c, r) for a one-character c.
replace(s, c, r) == Flatten([i \in 1..Len(s) |-> IF s[i] = c THEN r ELSE <<s[i]>>])

lstrip(s) ==
    LET ns == {i \in 1..Len(s) : ~IsSpace(s[i])}
    IN  IF ns = {} THEN <<>> ELSE From(s, MinOf(ns))

rstrip(s) ==
    LET ns == {i \in 1..Len(s) : ~IsSpace(s[i])}
    IN  IF ns = {} THEN <<>> ELSE SubSeq(s, 1, MaxOf(ns))

strip(s) == lstrip(rstrip(s))

\* s.strip(c): strip one given character from both ends.
strip_char(s, c) ==
    LET ns == {i \in 1..Len(s) : s[i] # c}
    IN  IF ns = {} THEN <<>> ELSE SubSeq(s, MinOf(ns), MaxOf(ns))

startswith(s, p) == Len(s) >= Len(p) /\ SubSeq(s, 1, Len(p)) = p

endswith(s, p) == Len(s) >= Len(p) /\ SubSeq(s, Len(s) - Len(p) + 1, Len(s)) = p

\* p occurs in s starting at index i.
MatchAt(s, i, p) == i >= 1 /\ i + Len(p) - 1 <= Len(s) /\ SubSeq(s, i, i + Len(p) - 1) = p

\* "p in s" for a non-empty p.
Contains(s, p) == \E i \in 1..Len(s) : MatchAt(s, i, p)

\* s.lower()
lower(s) == [i \in 1..Len(s) |-> to_lower(s[i])]

\* s.title(): a cased character is upper-cased when the character before it is
\* not cased, lower-cased otherwise.
title_case(s) ==
    [i \in 1..Len(s) |->
        IF i > 1 /\ IsAlpha(s[i-1]) THEN to_lower(s[i]) ELSE to_upper(s[i])]

\* n copies of the character c.
Rep(c, n) == [i \in 1..n |-> c]

(***************************************************************************)
(* jupyter_to_docusaurus.py: title, description and frontmatter             *)
(***************************************************************************)
\* Path(path).stem: the last path component (pathlib drops empty and "."
\* components) without its final suffix.
path_stem(path) ==
    LET parts == split(path, "/")
        kept == {i \in 1..Len(parts) : parts[i] # <<>> /\ parts[i] # <<".">>}
        name == IF kept = {} THEN <<>> ELSE parts[MaxOf(kept)]
        dots == {i \in 1..Len(name) : name[i] = "."}
    IN  IF dots # {} /\ 1 < MaxOf(dots) /\ MaxOf(dots) < Len(name)
        THEN SubSeq(name, 1, MaxOf(dots) - 1)
        ELSE name

\* os.path.dirname(path)
path_dirname(path) ==
    LET slashes == {i \in 1..Len(path) : path[i] = "/"}
        head == IF slashes = {} THEN <<>> ELSE SubSeq(path, 1, MaxOf(slashes))
    IN  IF head # <<>> /\ head # Rep("/", Len(head))
        THEN SubSeq(head, 1, MaxOf({i \in 1..Len(head) : head[i] # "/"}))
        ELSE head

\* os.path.join(dir, name) for a relative name.
path_join(dir, name) ==
    IF dir = <<>> \/ dir[Len(dir)] = "/" THEN dir \o name ELSE dir \o <<"/">> \o name

\* The length of the whitespace run that starts at index i of s.
SpaceRun(s, i) ==
    LET stops == {j \in i..Len(s) : ~IsSpace(s[j])}
    IN  IF stops = {} THEN Len(s) - i + 1 ELSE MinOf(stops) - i

\* re.search(r'^#\s+(.+)', source, re.MULTILINE): where group 1 starts when the
\* match is tried at index p, 0 when it fails there. \s+ is greedy and gives
\* characters back until (.+) finds a character that is not a newline.
H1GroupStart(s, p) ==
    IF ~(p <= Len(s) /\ s[p] = "#" /\ (p = 1 \/ s[p-1] = "\n")) THEN 0
    ELSE LET w == SpaceRun(s, p + 1)
             ks == {k \in 1..w : p + k + 1 <= Len(s) /\ s[p + k + 1] # "\n"}
         IN  IF ks = {} THEN 0 ELSE p + MaxOf(ks) + 1

H1Matches(s) == {p \in 1..Len(s) : H1GroupStart(s, p) # 0}

\* h1_match.group(1): from the group's start to the end of its line.
H1Group(s) ==
    LET g == H1GroupStart(s, MinOf(H1Matches(s)))
        nl == {j \in g..Len(s) : s[j] = "\n"}
    IN  SubSeq(s, g, IF nl = {} THEN Len(s) ELSE MinOf(nl) - 1)

filename_title(path) ==
    title_case(replace(replace(path_stem(path), "_", <<" ">>), "-", <<" ">>))

\* A title extractor that looks at the notebook metadata before anything else.
extract_title_metadata_first(notebook, path) ==
    IF "title" \in DOMAIN notebook.metadata
    THEN notebook.metadata["title"]
    ELSE LET md == {i \in 1..Len(notebook.cells) : notebook.cells[i].cell_type = "markdown"}
         IN  IF md # {} /\ H1Matches(Flatten(notebook.cells[MinOf(md)].source)) # {}
             THEN H1Group(Flatten(notebook.cells[MinOf(md)].source))
             ELSE filename_title(path)

extract_title(notebook, path) ==
    LET md == {i \in 1..Len(notebook.cells) : notebook.cells[i].cell_type = "markdown"}
        source == Flatten(notebook.cells[MinOf(md)].source)
    IN  IF md # {} /\ H1Matches(source) # {}
        THEN strip(H1Group(source))
        ELSE filename_title(path)

MinDescLen == 20

DefaultDescription == <<"J","u","p","y","t","e","r"," ","n","o","t","e","b","o","o","k"," ","c","o","n","v","e","r","t","e","d"," ","t","o"," ","d","o","c","u","m","e","n","t","a","t","i","o","n">>

\* The stripped non-empty lines of a Markdown source, in order.
RECURSIVE NonEmptyLines(_)
NonEmptyLines(lines) ==
    IF lines = <<>> THEN <<>>
    ELSE IF strip(Head(lines)) # <<>>
         THEN <<strip(Head(lines))>> \o NonEmptyLines(Tail(lines))
         ELSE NonEmptyLines(Tail(lines))

DescriptionLines(cell) ==
    LET lines == NonEmptyLines(split(Flatten(cell.source), "\n"))
    IN  {j \in 1..Len(lines) : lines[j][1] # "#" /\ Len(lines[j]) > MinDescLen}

\* A description extractor that scans the cells of every type.
extract_description_any_cell(notebook) ==
    LET cells == notebook.cells
        hits == {i \in 1..Len(cells) : DescriptionLines(cells[i]) # {}}
    IN  IF "description" \in DOMAIN notebook.metadata
        THEN notebook.metadata["description"]
        ELSE IF hits # {}
        THEN LET cell == cells[MinOf(hits)]
             IN  NonEmptyLines(split(Flatten(cell.source), "\n"))[MinOf(DescriptionLines(cell))]
        ELSE DefaultDescription

extract_description(notebook) ==
    LET cells == notebook.cells
        hits == {i \in 1..Len(cells) :
                    cells[i].cell_type = "markdown" /\ DescriptionLines(cells[i]) # {}}
    IN  IF "description" \in DOMAIN notebook.metadata
        THEN notebook.metadata["description"]
        ELSE IF hits # {}
        THEN LET cell == cells[MinOf(hits)]
             IN  NonEmptyLines(split(Flatten(cell.source), "\n"))[MinOf(DescriptionLines(cell))]
        ELSE DefaultDescription

\* The index of the '>' that ends a match of <[^>]+> begun at index p, 0 when
\* there is none: a '<', at least one character that is not '>', the first '>'.
TagEnd(s, p) ==
    LET close == {j \in p+1..Len(s) : s[j] = ">"}
    IN  IF s[p] = "<" /\ close # {} /\ MinOf(close) >= p + 2 THEN MinOf(close) ELSE 0

\* re.sub(r'<[^>]+>', '', text) from index i on: leftmost matches, one after
\* the other.
RECURSIVE remove_tags(_, _)
remove_tags(s, i) ==
    LET starts == {p \in i..Len(s) : TagEnd(s, p) # 0}
    IN  IF starts = {} THEN From(s, i)
        ELSE SubSeq(s, i, MinOf(starts) - 1) \o remove_tags(s, TagEnd(s, MinOf(starts)) + 1)

\* re.sub(r'\s+', ' ', text): each run of whitespace becomes one space.
collapse_spaces(s) ==
    Flatten([i \in 1..Len(s) |->
        IF ~IsSpace(s[i]) THEN <<s[i]>>
        ELSE IF i > 1 /\ IsSpace(s[i-1]) THEN <<>>
        ELSE <<" ">>])

MaxYamlLen == 150

KeptYamlLen == 147

Ellipsis == <<".",".",".">>

\* The text of _clean_yaml_string just before the length test.
yaml_escaped(text) ==
    collapse_spaces(
        replace(replace(replace(remove_tags(text, 1), "\"", <<"\\","\"">>),
                        "\n", <<" ">>), "\r", <<" ">>))

yaml_truncated(text) ==
    IF Len(text) > MaxYamlLen THEN SubSeq(text, 1, KeptYamlLen) \o Ellipsis ELSE text

clean_yaml_string(text) ==
    IF text = <<>> THEN <<>> ELSE strip(yaml_truncated(yaml_escaped(text)))

create_frontmatter(title, notebook) ==
    <<"-","-","-","\n","t","i","t","l","e",":"," ","\"">>
    \o clean_yaml_string(title) \o
    <<"\"","\n","d","e","s","c","r","i","p","t","i","o","n",":"," ","\"">>
    \o clean_yaml_string(extract_description(notebook)) \o
    <<"\"","\n","-","-","-","\n","\n">>


(***************************************************************************)
(* jupyter_to_docusaurus.py: output path                                    *)
(***************************************************************************)
\* The class [a-zA-Z0-9-_] of _generate_output_path.
IsSafeNameChar(c) == IsAlpha(c) \/ c \in Digits \/ c \in {"-", "_"}

\* re.sub(r'-+', '-', text): each run of '-' becomes one '-'.
collapse_dashes(s) ==
    Flatten([i \in 1..Len(s) |->
        IF s[i] = "-" /\ i > 1 /\ s[i-1] = "-" THEN <<>> ELSE <<s[i]>>])

generate_output_path(input_path, output_dir) ==
    LET input_name == path_stem(input_path)
        dashed == [i \in 1..Len(input_name) |->
                      IF IsSafeNameChar(input_name[i]) THEN input_name[i] ELSE "-"]
        safe_name == strip_char(collapse_dashes(lower(dashed)), "-")
    IN  path_join(output_dir, safe_name \o <<".","m","d","x">>)

(***************************************************************************)
(* jupyter_to_docusaurus.py: _clean_markdown and the regex passes it runs   *)
(***************************************************************************)
\* The first index j >= i with s[j] = c, 0 when there is none.
FirstAt(s, i, c) ==
    LET at == {j \in i..Len(s) : j >= 1 /\ s[j] = c}
    IN  IF at = {} THEN 0 ELSE MinOf(at)

\* The lookahead [^>]*lit at index k: lit starts at k or later with no '>' between.
AheadBeforeClose(s, k, lit) ==
    \E j \in k..Len(s) : MatchAt(s, j, lit) /\ \A m \in k..j-1 : s[m] # ">"

UnclosedTagNames == << <<"u","l">>, <<"o","l">>, <<"l","i">>, <<"d","i","v">>, <<"s","p","a","n">>, <<"p">> >>

\* r'<(ul|ol|li|div|span|p)(?![^>]*/>)(?![^>]*</\1>)': the match is '<' and the
\* name only.
UnclosedTagEnd(s, p) ==
    LET names == {n \in 1..Len(UnclosedTagNames) :
                    /\ MatchAt(s, p + 1, UnclosedTagNames[n])
                    /\ ~AheadBeforeClose(s, p + 1 + Len(UnclosedTagNames[n]), <<"/",">">>)
                    /\ ~AheadBeforeClose(s, p + 1 + Len(UnclosedTagNames[n]),
                                         <<"<","/">> \o UnclosedTagNames[n] \o <<">">>)}
    IN  IF s[p] = "<" /\ names # {} THEN p + Len(UnclosedTagNames[MinOf(names)]) ELSE 0

VoidTagNames == << <<"b","r">>, <<"h","r">>, <<"i","m","g">> >>

\* r'<(br|hr|img)([^>]*)(?<!/)>': up to the first '>', when no '/' stands before it.
VoidTagEnd(s, p) ==
    LET names == {n \in 1..Len(VoidTagNames) : MatchAt(s, p + 1, VoidTagNames[n])}
        close == FirstAt(s, p + 1, ">")
    IN  IF s[p] = "<" /\ names # {} /\ close # 0 /\ s[close - 1] # "/" THEN close ELSE 0

\* r'<\1\2 />'
VoidTagRepl(s, p) == SubSeq(s, p, VoidTagEnd(s, p) - 1) \o <<" ","/",">">>

\* r'<([^>]+)\s+attr="[^"]*"([^>]*)>' tried at p: the indices q where attr="
\* can start (one whitespace before it, at least one character of group 1
\* before that, no '>' since p) with a closing quote and a '>' after it.
AttrStarts(s, p, attr) ==
    {q \in p+3..Len(s) :
        /\ MatchAt(s, q, attr \o <<"=","\"">>)
        /\ IsSpace(s[q-1])
        /\ \A m \in p+1..q-1 : s[m] # ">"
        /\ FirstAt(s, q + Len(attr) + 2, "\"") # 0
        /\ FirstAt(s, FirstAt(s, q + Len(attr) + 2, "\"") + 1, ">") # 0}

\* Group 1 is greedy: the last such q is taken.
AttrEnd(s, p, attr) ==
    IF s[p] = "<" /\ AttrStarts(s, p, attr) # {}
    THEN LET q == MaxOf(AttrStarts(s, p, attr))
         IN  FirstAt(s, FirstAt(s, q + Len(attr) + 2, "\"") + 1, ">")
    ELSE 0

\* r'<\1\2>': the whitespace before the attribute and the attribute are dropped.
AttrRepl(s, p, attr) ==
    LET q == MaxOf(AttrStarts(s, p, attr))
        quote == FirstAt(s, q + Len(attr) + 2, "\"")
    IN  SubSeq(s, p, q - 2) \o SubSeq(s, quote + 1, AttrEnd(s, p, attr))

StyleAttr == <<"s","t","y","l","e">>

StyleEnd(s, p) == AttrEnd(s, p, StyleAttr)

StyleRepl(s, p) == AttrRepl(s, p, StyleAttr)

ImgSrcOpen == <<"<","i","m","g"," ","s","r","c","=","\"">>

\* r'<img src="([^"]+)"([^>]*?)>'
ImgEnd(s, p) ==
    LET quote == FirstAt(s, p + Len(ImgSrcOpen), "\"")
    IN  IF MatchAt(s, p, ImgSrcOpen) /\ quote > p + Len(ImgSrcOpen)
        THEN FirstAt(s, quote + 1, ">")
        ELSE 0

\* r'![Image](\1)'
ImgRepl(s, p) ==
    <<"!","[","I","m","a","g","e","]","(">> \o
    SubSeq(s, p + Len(ImgSrcOpen), FirstAt(s, p + Len(ImgSrcOpen), "\"") - 1) \o <<")">>

\* Where the 'https?://' that starts at p ends, 0 when none starts there.
SchemeEnd(s, p) ==
    IF MatchAt(s, p, <<"h","t","t","p",":","/","/">>) THEN p + 6
    ELSE IF MatchAt(s, p, <<"h","t","t","p","s",":","/","/">>) THEN p + 7
    ELSE 0

\* The last index of the run of characters outside stop that starts at i
\* (i - 1 when the run is empty).
RunEnd(s, i, stop) ==
    LET ends == {j \in i..Len(s) : s[j] \in stop}
    IN  IF ends = {} THEN Len(s) ELSE MinOf(ends) - 1

AngleUrlStop == {">", " ", "\n", "\r", "\t"}

\* r'<(https?://[^>\s]+)>'
AngleUrlEnd(s, p) ==
    LET e == SchemeEnd(s, p + 1)
        r == RunEnd(s, e + 1, AngleUrlStop)
    IN  IF s[p] = "<" /\ e # 0 /\ r > e /\ r < Len(s) /\ s[r + 1] = ">" THEN r + 1 ELSE 0

\* r'[\1](\1)'
AngleUrlRepl(s, p) ==
    LET url == SubSeq(s, p + 1, AngleUrlEnd(s, p) - 1)
    IN  <<"[">> \o url \o <<"]","(">> \o url \o <<")">>

\* re.sub(r'<(?![a-zA-Z/!])', r'&lt;', content)
escape_lt(s) ==
    Flatten([i \in 1..Len(s) |->
        IF s[i] = "<" /\ ~(i < Len(s) /\ (IsAlpha(s[i+1]) \/ s[i+1] \in {"/", "!"}))
        THEN <<"&","l","t",";">> ELSE <<s[i]>>])

\* re.sub(r'(?<![a-zA-Z])>', r'&gt;', content)
escape_gt(s) ==
    Flatten([i \in 1..Len(s) |->
        IF s[i] = ">" /\ ~(i > 1 /\ IsAlpha(s[i-1])) THEN <<"&","g","t",";">> ELSE <<s[i]>>])

BareUrlStop == {" ", "\n", "\r", "\t", "<", ">", "\"", "[", "]"}

\* r'(?<!\[)(?<!\()https?://[^\s<>"\[\]]+'
BareUrlEnd(s, p) ==
    LET e == SchemeEnd(s, p)
        r == RunEnd(s, e + 1, BareUrlStop)
    IN  IF e # 0 /\ r > e /\ ~(p > 1 /\ s[p-1] \in {"[", "("}) THEN r ELSE 0

\* f'[{m.group()}]({m.group()})'
BareUrlRepl(s, p) ==
    LET url == SubSeq(s, p, BareUrlEnd(s, p))
    IN  <<"[">> \o url \o <<"]","(">> \o url \o <<")">>

\* clean_mdx.py, r'<ul[^>]*>(?![^<]*</ul>)' and its five siblings, for the tag
\* name given: the whole opening tag, when the first '<' after it does not
\* start the closing tag.
UnclosedWholeEnd(name, s, p) ==
    LET close == FirstAt(s, p + 1 + Len(name), ">")
        next == FirstAt(s, close + 1, "<")
    IN  IF MatchAt(s, p, <<"<">> \o name) /\ close # 0
           /\ ~(next # 0 /\ MatchAt(s, next, <<"<","/">> \o name \o <<">">>))
        THEN close ELSE 0

TableOpen == <<"<","t","a","b","l","e">>

TableClose == <<"<","/","t","a","b","l","e",">">>

TableNote == <<":",":",":","n","o","t","e","\n","T","a","b","l","e"," ","o","u","t","p","u","t"," ","(","v","i","e","w"," ","i","n"," ","o","r","i","g","i","n","a","l"," ","n","o","t","e","b","o","o","k",")","\n",":",":",":">>

\* The first index j >= i where lit occurs, 0 when there is none.
FirstMatch(s, i, lit) ==
    LET at == {j \in i..Len(s) : j >= 1 /\ MatchAt(s, j, lit)}
    IN  IF at = {} THEN 0 ELSE MinOf(at)

\* clean_mdx.py, r'<table[^>]*>.*?</table>' with re.DOTALL.
TableEnd(s, p) ==
    LET close == FirstAt(s, p + Len(TableOpen), ">")
        last == FirstMatch(s, close + 1, TableClose)
    IN  IF MatchAt(s, p, TableOpen) /\ close # 0 /\ last # 0
        THEN last + Len(TableClose) - 1 ELSE 0

ClassAttr == <<"c","l","a","s","s">>

StyleOpen == <<"<","s","t","y","l","e">>

StyleClose == <<"<","/","s","t","y","l","e",">">>

\* fix_mdx.py, r'<style[^>]*>.*?</style>' with re.DOTALL.
StyleBlockEnd(s, p) ==
    LET close == FirstAt(s, p + Len(StyleOpen), ">")
        last == FirstMatch(s, close + 1, StyleClose)
    IN  IF MatchAt(s, p, StyleOpen) /\ close # 0 /\ last # 0
        THEN last + Len(StyleClose) - 1 ELSE 0

BlockLangs == << <<"p","y","t","h","o","n">>, <<"t","e","x","t">>, <<"b","a","s","h">> >>

\* fix_mdx.py, the fence, an optional language and the newline that open a
\* match of r'FFF(?:python|text|bash)?\n(.*?)\nFFF' (FFF the fence) at p: the
\* index where group 1 starts, 0 when the opening does not match.
BlockBodyStart(s, p) ==
    LET langs == {n \in 1..Len(BlockLangs) :
                    MatchAt(s, p + 3, BlockLangs[n] \o <<"\n">>)}
    IN  IF ~MatchAt(s, p, <<"bt","bt","bt">>) THEN 0
        ELSE IF langs # {} THEN p + 3 + Len(BlockLangs[MinOf(langs)]) + 1
        ELSE IF MatchAt(s, p + 3, <<"\n">>) THEN p + 4
        ELSE 0

BlockTail == <<"\n","bt","bt","bt">>

CodeBlockEnd(s, p) ==
    LET body == BlockBodyStart(s, p)
        tail == FirstMatch(s, body, BlockTail)
    IN  IF body # 0 /\ tail # 0 THEN tail + Len(BlockTail) - 1 ELSE 0

LongBlockLen == 5000

LargeOutputNote == <<"bt","bt","bt","\n","#"," ","L","a","r","g","e"," ","o","u","t","p","u","t"," ","t","r","u","n","c","a","t","e","d"," ","f","o","r"," ","d","o","c","u","m","e","n","t","a","t","i","o","n","\n","bt","bt","bt">>

\* limit_code_blocks
CodeBlockRepl(s, p) ==
    IF FirstMatch(s, BlockBodyStart(s, p), BlockTail) - BlockBodyStart(s, p) > LongBlockLen
    THEN LargeOutputNote
    ELSE SubSeq(s, p, CodeBlockEnd(s, p))

\* The tag name of a pattern of clean_mdx.py's problematic_patterns.
ProblematicTagName(pat) ==
    CASE pat = "ul" -> <<"u","l">>
      [] pat = "ol" -> <<"o","l">>
      [] pat = "li" -> <<"l","i">>
      [] pat = "div" -> <<"d","i","v">>
      [] pat = "span" -> <<"s","p","a","n">>
      [] pat = "p" -> <<"p">>

\* fix_mdx_issues.py, the fenced blocks: three backticks, as little as can be of
\* anything, three backticks.
FencedEnd(s, p) ==
    IF MatchAt(s, p, <<"bt","bt","bt">>) /\ FirstMatch(s, p + 3, <<"bt","bt","bt">>) # 0
    THEN FirstMatch(s, p + 3, <<"bt","bt","bt">>) + 2
    ELSE 0

\* fix_mdx_issues.py, the inline code: a backtick, one character or more that
\* is no backtick, a backtick.
InlineCodeEnd(s, p) ==
    IF p + 1 <= Len(s) /\ s[p] = "bt" /\ s[p+1] # "bt" THEN FirstAt(s, p + 1, "bt") ELSE 0

ImgTagOpen == <<"<","i","m","g">>

\* fix_mdx_issues.py, r'<img[^>]*/?>': the tag runs to the first '>'.
ImgTagEnd(s, p) == IF MatchAt(s, p, ImgTagOpen) THEN FirstAt(s, p + 4, ">") ELSE 0

\* fix_img_tag: a tag that does not end in ' />' loses its last two characters
\* and gets ' />'.
ImgTagRepl(s, p) ==
    LET full_tag == SubSeq(s, p, ImgTagEnd(s, p))
    IN  IF endswith(full_tag, <<" ","/",">">>) THEN full_tag
        ELSE SubSeq(full_tag, 1, Len(full_tag) - 2) \o <<" ","/",">">>

KnownEntities == { <<"a","m","p",";">>, <<"l","t",";">>, <<"g","t",";">>, <<"q","u","o","t",";">>, <<"#">> }

\* fix_mdx_issues.py, r'&(?!amp;|lt;|gt;|quot;|#)'
AmpEnd(s, p) ==
    IF p <= Len(s) /\ s[p] = "&" /\ ~\E e \in KnownEntities : MatchAt(s, p + 1, e) THEN p ELSE 0

(***************************************************************************)
(* scripts/add_frontmatter.py: the patterns of convert_md_to_mdx            *)
(***************************************************************************)
\* The chart emoji of the note, one character.
ChartEmoji == "U+1F4CA"

PngOpen == <<"!","[","p","n","g","]","(">>

PngNote ==
    <<":",":",":","n","o","t","e","\n",ChartEmoji," ","C","h","a","r","t","/","i","m","a","g","e"," ","o","u","t","p","u","t"," ","(","r","e","n","d","e","r","e","d"," ","i","n"," ","n","o","t","e","b","o","o","k",")","\n",":",":",":">>

\* r'!\[png\]\([^)]+\)'
PngImageEnd(s, p) ==
    IF MatchAt(s, p, PngOpen) /\ FirstAt(s, p + Len(PngOpen), ")") > p + Len(PngOpen)
    THEN FirstAt(s, p + Len(PngOpen), ")")
    ELSE 0

(***************************************************************************)
(* docs/jupyter/convert_md_to_mdx.py: the patterns of convert_md_to_mdx     *)
(***************************************************************************)
CommentOpen == <<"<","!","-","-">>

CommentClose == <<"-","-",">">>

\* r'<!--\s*(.+?)\s*-->' with re.DOTALL, matched at p: where group 1 starts, 0
\* when there is no match. The first \s* takes the whole run of whitespace, or
\* gives its last character to the group when '-->' comes right after the run.
CommentGroupStart(s, p) ==
    IF ~MatchAt(s, p, CommentOpen) THEN 0
    ELSE IF FirstMatch(s, p + 4 + SpaceRun(s, p + 4) + 1, CommentClose) # 0
    THEN p + 4 + SpaceRun(s, p + 4)
    ELSE IF SpaceRun(s, p + 4) >= 1 /\ MatchAt(s, p + 4 + SpaceRun(s, p + 4), CommentClose)
    THEN p + 4 + SpaceRun(s, p + 4) - 1
    ELSE 0

\* Where the '-->' of that match starts.
CommentCloseAt(s, p) == FirstMatch(s, CommentGroupStart(s, p) + 1, CommentClose)

CommentEnd(s, p) == IF CommentGroupStart(s, p) = 0 THEN 0 ELSE CommentCloseAt(s, p) + 2

\* r'{/* \1 */}': the group is as short as it can be, so it ends before the
\* whitespace that runs up to '-->'.
CommentRepl(s, p) ==
    <<"{","/","*"," ">>
    \o SubSeq(s, CommentGroupStart(s, p),
              MaxOf({CommentGroupStart(s, p)}
                    \cup {j \in CommentGroupStart(s, p)..(CommentCloseAt(s, p) - 1) : ~IsSpace(s[j])}))
    \o <<" ","*","/","}">>

DataUrlOpen == <<"(","d","a","t","a",":","i","m","a","g","e","/">>

\* r'!\[([^\]]*)\]\((data:image/[^)]+)\)' matched at p: where the ']' is, 0
\* when there is no match.
DataImageBracket(s, p) ==
    IF MatchAt(s, p, <<"!","[">>)
       /\ FirstAt(s, p + 2, "]") # 0
       /\ MatchAt(s, FirstAt(s, p + 2, "]") + 1, DataUrlOpen)
       /\ FirstAt(s, FirstAt(s, p + 2, "]") + 1, ")") > FirstAt(s, p + 2, "]") + Len(DataUrlOpen) + 1
    THEN FirstAt(s, p + 2, "]")
    ELSE 0

DataImageEnd(s, p) ==
    IF DataImageBracket(s, p) = 0 THEN 0 ELSE FirstAt(s, DataImageBracket(s, p) + 1, ")")

\* wrap_data_url
DataImageRepl(s, p) ==
    <<"<","i","m","g"," ","a","l","t","=","\"">> \o SubSeq(s, p + 2, DataImageBracket(s, p) - 1)
    \o <<"\""," ","s","r","c","=","\"">>
    \o SubSeq(s, DataImageBracket(s, p) + 2, DataImageEnd(s, p) - 1)
    \o <<"\""," ","/",">">>

\* r'(?<!<)(?<!</)(?<!=")(?<!:)(<)(?![a-zA-Z/!])'
StandaloneLtEnd(s, p) ==
    IF /\ p <= Len(s) /\ s[p] = "<"
       /\ ~(p > 1 /\ s[p-1] \in {"<", ":"})
       /\ ~MatchAt(s, p - 2, <<"<","/">>)
       /\ ~MatchAt(s, p - 2, <<"=","\"">>)
       /\ ~(p < Len(s) /\ (IsAlpha(s[p+1]) \/ s[p+1] \in {"/", "!"}))
    THEN p ELSE 0

\* r'(?<![a-zA-Z/])(?<!")(?<!/)(?<!;)>(?!>)'
StandaloneGtEnd(s, p) ==
    IF /\ p <= Len(s) /\ s[p] = ">"
       /\ ~(p > 1 /\ (IsAlpha(s[p-1]) \/ s[p-1] \in {"/", "\"", ";"}))
       /\ ~(p < Len(s) /\ s[p+1] = ">")
    THEN p ELSE 0

\* \w, on the characters modelled
IsWord(c) == IsAlpha(c) \/ c \in Digits \/ c = "_"

\* The first '>' after the '<' and the word character at p, 0 when p is not
\* the start of a tag or no '>' follows.
TagClose(s, p) ==
    IF p < Len(s) /\ s[p] = "<" /\ IsWord(s[p+1]) THEN FirstAt(s, p + 2, ">") ELSE 0

\* r'<(\w+)([^>]*[^/\s])(/?)>' matched at p, q the first '>' after the name.
\* [^/\s] takes q itself when '>' or '/>' comes right after it; else the
\* character before q, or the one before the '/' that is before q.
SpacedTagCase(s, p, q) ==
    IF q = 0 THEN "none"
    ELSE IF MatchAt(s, q + 1, <<"/",">">>) THEN "close_slash"
    ELSE IF MatchAt(s, q + 1, <<">">>) THEN "close"
    ELSE IF q >= p + 3 /\ s[q-1] # "/" /\ ~IsSpace(s[q-1]) THEN "plain"
    ELSE IF q >= p + 4 /\ s[q-1] = "/" /\ s[q-2] # "/" /\ ~IsSpace(s[q-2]) THEN "slash"
    ELSE "none"

SpacedTagEnd(s, p) ==
    CASE SpacedTagCase(s, p, TagClose(s, p)) = "none" -> 0
      [] SpacedTagCase(s, p, TagClose(s, p)) = "close_slash" -> TagClose(s, p) + 2
      [] SpacedTagCase(s, p, TagClose(s, p)) = "close" -> TagClose(s, p) + 1
      [] OTHER -> TagClose(s, p)

\* r'<\1\2 \3>'
SpacedTagRepl(s, p) ==
    CASE SpacedTagCase(s, p, TagClose(s, p)) = "close_slash" ->
             SubSeq(s, p, TagClose(s, p)) \o <<" ","/",">">>
      [] SpacedTagCase(s, p, TagClose(s, p)) = "close" ->
             SubSeq(s, p, TagClose(s, p)) \o <<" ",">">>
      [] SpacedTagCase(s, p, TagClose(s, p)) = "plain" ->
             SubSeq(s, p, TagClose(s, p) - 1) \o <<" ",">">>
      [] OTHER -> SubSeq(s, p, TagClose(s, p) - 2) \o <<" ","/",">">>

\* r'<(\w+)([^>]*)/>'
SelfClosingEnd(s, p) ==
    IF TagClose(s, p) >= p + 3 /\ s[TagClose(s, p) - 1] = "/" THEN TagClose(s, p) ELSE 0

\* r'<\1\2 />'
SelfClosingRepl(s, p) == SubSeq(s, p, TagClose(s, p) - 2) \o <<" ","/",">">>

\* The patterns substituted by re.sub in the scripts: the last index of the
\* match of pattern pat that starts at p, 0 when there is none. A pattern that
\* is none of the named ones is one of clean_mdx.py's problematic_patterns.
PatEnd(pat, s, p) ==
    CASE pat = "unclosed" -> UnclosedTagEnd(s, p)
      [] pat = "void" -> VoidTagEnd(s, p)
      [] pat = "style" -> StyleEnd(s, p)
      [] pat = "img" -> ImgEnd(s, p)
      [] pat = "angle_url" -> AngleUrlEnd(s, p)
      [] pat = "bare_url" -> BareUrlEnd(s, p)
      [] pat = "bare_url_angle" -> BareUrlEnd(s, p)
      [] pat = "class" -> AttrEnd(s, p, ClassAttr)
      [] pat = "table" -> TableEnd(s, p)
      [] pat = "style_block" -> StyleBlockEnd(s, p)
      [] pat = "code_block" -> CodeBlockEnd(s, p)
      [] pat = "fenced" -> FencedEnd(s, p)
      [] pat = "inline_code" -> InlineCodeEnd(s, p)
      [] pat = "img_tag" -> ImgTagEnd(s, p)
      [] pat = "amp" -> AmpEnd(s, p)
      [] pat = "html_comment" -> CommentEnd(s, p)
      [] pat = "data_image" -> DataImageEnd(s, p)
      [] pat = "standalone_lt" -> StandaloneLtEnd(s, p)
      [] pat = "standalone_gt" -> StandaloneGtEnd(s, p)
      [] pat = "spaced_tag" -> SpacedTagEnd(s, p)
      [] pat = "self_closing" -> SelfClosingEnd(s, p)
      [] pat = "png_image" -> PngImageEnd(s, p)
      [] OTHER -> UnclosedWholeEnd(ProblematicTagName(pat), s, p)

\* The replacement of that match.
PatRepl(pat, s, p) ==
    CASE pat = "unclosed" -> <<>>
      [] pat = "void" -> VoidTagRepl(s, p)
      [] pat = "style" -> StyleRepl(s, p)
      [] pat = "img" -> ImgRepl(s, p)
      [] pat = "angle_url" -> AngleUrlRepl(s, p)
      [] pat = "bare_url" -> BareUrlRepl(s, p)
      [] pat = "bare_url_angle" -> <<"<">> \o SubSeq(s, p, BareUrlEnd(s, p)) \o <<">">>
      [] pat = "class" -> AttrRepl(s, p, ClassAttr)
      [] pat = "table" -> TableNote
      [] pat = "style_block" -> <<>>
      [] pat = "code_block" -> CodeBlockRepl(s, p)
      [] pat = "img_tag" -> ImgTagRepl(s, p)
      [] pat = "amp" -> <<"&","a","m","p",";">>
      [] pat = "html_comment" -> CommentRepl(s, p)
      [] pat = "data_image" -> DataImageRepl(s, p)
      [] pat = "standalone_lt" -> <<"&","l","t",";">>
      [] pat = "standalone_gt" -> <<"&","g","t",";">>
      [] pat = "spaced_tag" -> SpacedTagRepl(s, p)
      [] pat = "self_closing" -> SelfClosingRepl(s, p)
      [] pat = "png_image" -> PngNote
      [] OTHER -> <<>>

\* re.sub(pattern, repl, s) from index i on: none of the patterns matches the
\* empty string; matches are taken leftmost, one after the other.
\* ends[p] is the end of the match that starts at p, 0 where there is none.
RECURSIVE RegexSubFrom(_, _, _, _)
RegexSubFrom(pat, s, ends, i) ==
    IF \A p \in i..Len(s) : ends[p] = 0 THEN From(s, i)
    ELSE SubSeq(s, i, MinOf({p \in i..Len(s) : ends[p] # 0}) - 1)
         \o PatRepl(pat, s, MinOf({p \in i..Len(s) : ends[p] # 0}))
         \o RegexSubFrom(pat, s, ends, ends[MinOf({p \in i..Len(s) : ends[p] # 0})] + 1)

RegexSub(pat, s, i) == RegexSubFrom(pat, s, [p \in 1..Len(s) |-> PatEnd(pat, s, p)], i)

\* One re.sub after the other, each over the result of the one before.
RECURSIVE RegexSubs(_, _)
RegexSubs(pats, s) ==
    IF pats = <<>> THEN s ELSE RegexSubs(Tail(pats), RegexSub(Head(pats), s, 1))

\* _fix_html_tags
fix_html_tags(content) == RegexSubs(<<"unclosed", "void", "style">>, content)

\* _fix_mdx_syntax
fix_mdx_syntax(content) ==
    RegexSubs(<<"bare_url">>, escape_gt(escape_lt(RegexSubs(<<"angle_url">>, content))))

\* _clean_markdown
clean_markdown(markdown) ==
    fix_mdx_syntax(RegexSubs(<<"img">>, fix_html_tags(markdown)))

(***************************************************************************)
(* jupyter_to_docusaurus.py: cells and outputs                              *)
(***************************************************************************)
FenceClose == <<"\n","bt","bt","bt","\n">>

ImagePlaceholder == <<":",":",":","n","o","t","e"," ","O","u","t","p","u","t","\n","I","m","a","g","e"," ","o","u","t","p","u","t"," ","(","P","N","G"," ","d","a","t","a",")"," ","-"," ","p","l","e","a","s","e"," ","s","a","v","e"," ","a","n","d"," ","r","e","f","e","r","e","n","c","e"," ","m","a","n","u","a","l","l","y","\n",":",":",":","\n">>

\* An output loop that puts the image itself in the page.
transmute_output_inline_image(output) ==
    IF output.output_type \in {"execute_result", "display_data"}
       /\ "image/png" \in DOMAIN output.data
    THEN ImagePlaceholder \o <<"!","[","p","n","g","]","(","d","a","t","a",":","i","m","a","g","e","/","p","n","g",";","b","a","s","e","6","4",",">> \o output.data["image/png"] \o <<")","\n">>
    ELSE <<>>

\* An output loop that leaves a mark for an output type it does not know.
transmute_output_unknown_marked(output) ==
    IF output.output_type \in {"stream", "execute_result", "display_data", "error"}
    THEN <<>>
    ELSE <<"<","!","-","-"," ">> \o <<output.output_type>> \o <<" ","-","-",">","\n">>

\* An output loop that puts the HTML of an output before its image.
transmute_output_html_first(output) ==
    IF output.output_type \in {"execute_result", "display_data"}
    THEN (IF "text/html" \in DOMAIN output.data
          THEN <<"bt","bt","bt","h","t","m","l","\n">> \o Flatten(output.data["text/html"]) \o FenceClose
          ELSE <<>>)
         \o (IF "image/png" \in DOMAIN output.data THEN ImagePlaceholder ELSE <<>>)
    ELSE <<>>

\* One pass of the loop of _transmute_outputs.
transmute_output(output) ==
    IF output.output_type = "stream"
    THEN <<"bt","bt","bt","b","a","s","h","\n">> \o Flatten(output.text) \o FenceClose
    ELSE IF output.output_type \in {"execute_result", "display_data"}
    THEN (IF "text/plain" \in DOMAIN output.data
          THEN <<"bt","bt","bt","\n">> \o Flatten(output.data["text/plain"]) \o FenceClose
          ELSE <<>>)
         \o (IF "image/png" \in DOMAIN output.data THEN ImagePlaceholder ELSE <<>>)
         \o (IF "text/html" \in DOMAIN output.data
             THEN <<"bt","bt","bt","h","t","m","l","\n">> \o Flatten(output.data["text/html"]) \o FenceClose
             ELSE <<>>)
    ELSE IF output.output_type = "error"
    THEN <<"bt","bt","bt","p","y","t","h","o","n","\n","#"," ","E","r","r","o","r",":","\n">> \o join(output.traceback, <<"\n">>) \o FenceClose
    ELSE <<>>

\* _transmute_outputs
transmute_outputs(outputs) ==
    Flatten([i \in 1..Len(outputs) |-> transmute_output(outputs[i])])

\* _transmute_markdown_cell
transmute_markdown_cell(cell) == clean_markdown(Flatten(cell.source)) \o <<"\n">>

\* _transmute_code_cell
transmute_code_cell(cell) ==
    <<"bt","bt","bt","p","y","t","h","o","n","\n">> \o Flatten(cell.source) \o FenceClose
    \o (IF cell.outputs # <<>> THEN transmute_outputs(cell.outputs) ELSE <<>>)

\* _transmute_raw_cell
transmute_raw_cell(cell) == <<"bt","bt","bt","\n">> \o Flatten(cell.source) \o FenceClose

\* The dispatch on cell_type in the loop of _transmute_cells.
transmute_cell(cell) ==
    IF cell.cell_type = "markdown" THEN transmute_markdown_cell(cell)
    ELSE IF cell.cell_type = "code" THEN transmute_code_cell(cell)
    ELSE IF cell.cell_type = "raw" THEN transmute_raw_cell(cell)
    ELSE <<>>

\* A loop that puts each cell's text before what is already there.
append_cell_prepend(content, cell) == transmute_cell(cell) \o <<"\n">> \o content

\* One pass of the loop of _transmute_cells: content += <cell>; content += "\n".
append_cell(content, cell) == content \o transmute_cell(cell) \o <<"\n">>

\* The loop of _transmute_cells over the cells that are left.
RECURSIVE transmute_cells_loop(_, _)
transmute_cells_loop(content, cells) ==
    IF cells = <<>> THEN content
    ELSE transmute_cells_loop(append_cell(content, Head(cells)), Tail(cells))

\* _transmute_cells: the loop over the cells, from an empty content.
transmute_cells(cells) == transmute_cells_loop(<<>>, cells)

(***************************************************************************)
(* clean_mdx.py                                                             *)
(***************************************************************************)
Fence == <<"bt","bt","bt">>

\* line.strip().startswith(fence), the fence being three backticks
IsFenceLine(line) == startswith(strip(line), Fence)

Odd(n) == n % 2 = 1

BackticksIn(line, upto) == Cardinality({j \in 1..upto : line[j] = "bt"})

\* The while loop of escape_braces_outside_code over one line, entered with
\* in_inline_code = inline.
escape_line(line, inline) ==
    Flatten([i \in 1..Len(line) |->
        LET in_inline_code == (inline # Odd(BackticksIn(line, i - 1)))
        IN  IF line[i] = "bt" THEN <<"bt">>
            ELSE IF ~in_inline_code /\ line[i] = "{" THEN <<"\\","{">>
            ELSE IF ~in_inline_code /\ line[i] = "}" THEN <<"\\","}">>
            ELSE <<line[i]>>])

\* The for loop of escape_braces_outside_code from line n on; in_inline_code is
\* set once, before the loop, and carried from line to line.
RECURSIVE escape_lines(_, _, _, _)
escape_lines(lines, n, in_code_block, in_inline_code) ==
    IF n > Len(lines) THEN <<>>
    ELSE IF IsFenceLine(lines[n])
    THEN <<lines[n]>> \o escape_lines(lines, n + 1, ~in_code_block, in_inline_code)
    ELSE IF in_code_block
    THEN <<lines[n]>> \o escape_lines(lines, n + 1, in_code_block, in_inline_code)
    ELSE <<escape_line(lines[n], in_inline_code)>>
         \o escape_lines(lines, n + 1, in_code_block,
                         in_inline_code # Odd(BackticksIn(lines[n], Len(lines[n]))))

escape_braces_outside_code(text) ==
    join(escape_lines(split(text, "\n"), 1, FALSE, FALSE), <<"\n">>)

(***************************************************************************)
(* clean_mdx.py: fix_html_tags and clean_mdx_file                           *)
(***************************************************************************)
ProblematicTags == <<"ul", "ol", "li", "div", "span", "p">>

\* clean_mdx.fix_html_tags: the loop over problematic_patterns, then the table,
\* style, class and void-tag substitutions.
mdx_fix_html_tags(content) ==
    RegexSubs(ProblematicTags \o <<"table", "style", "class", "void">>, content)

VeryLongLineLen == 2000

\* "Remove very long lines" of clean_mdx_file.
drop_long_lines(content) ==
    LET lines == split(content, "\n")
    IN  join([n \in 1..Len(lines) |->
                IF Len(lines[n]) > VeryLongLineLen THEN <<"<","!","-","-"," ","V","e","r","y"," ","l","o","n","g"," ","l","i","n","e"," ","t","r","u","n","c","a","t","e","d"," ","f","o","r"," ","d","o","c","u","m","e","n","t","a","t","i","o","n"," ","-","-",">">> ELSE lines[n]],
             <<"\n">>)

\* clean_mdx_file: the content written back.
clean_mdx_file(content) ==
    drop_long_lines(escape_braces_outside_code(mdx_fix_html_tags(content)))

(***************************************************************************)
(* generate_autodoc.py: DocstringExtractor.clean_docstring                  *)
(***************************************************************************)
Indent(line) == Len(line) - Len(lstrip(line))

\* "Remove common leading whitespace": the first line is kept, the others lose
\* the smallest indentation found among the non-blank ones.
dedent(lines) ==
    LET inds == {Indent(lines[n]) : n \in {m \in 2..Len(lines) : strip(lines[m]) # <<>>}}
    IN  IF Len(lines) > 1 /\ inds # {}
        THEN [n \in 1..Len(lines) |->
                IF n > 1 /\ strip(lines[n]) # <<>>
                THEN From(lines[n], MinOf(inds) + 1) ELSE lines[n]]
        ELSE lines

\* The brace loop of clean_docstring from line n on: the fence line toggles
\* in_code_block before the test, so an opening fence line is kept and a
\* closing fence line is escaped.
RECURSIVE docstring_lines(_, _, _)
docstring_lines(lines, n, in_code_block) ==
    IF n > Len(lines) THEN <<>>
    ELSE LET now == IF IsFenceLine(lines[n]) THEN ~in_code_block ELSE in_code_block
         IN  <<IF now THEN lines[n]
               ELSE replace(replace(lines[n], "{", <<"\\","{">>), "}", <<"\\","}">>)>>
             \o docstring_lines(lines, n + 1, now)

clean_docstring(docstring) ==
    IF docstring = <<>> THEN <<>>
    ELSE LET cleaned == strip(join(dedent(split(strip(docstring), "\n")), <<"\n">>))
         IN  join(docstring_lines(split(cleaned, "\n"), 1, FALSE), <<"\n">>)

(***************************************************************************)
(* fix_mdx.py: fix_mdx_file                                                 *)
(***************************************************************************)
\* re.sub(r'(?<!B){(?!{)', '\\{', content), B the backtick
escape_open_braces(s) ==
    Flatten([i \in 1..Len(s) |->
        IF s[i] = "{" /\ ~(i > 1 /\ s[i-1] = "bt") /\ ~(i < Len(s) /\ s[i+1] = "{")
        THEN <<"\\","{">> ELSE <<s[i]>>])

\* re.sub(r'(?<!B)(?<!{)}(?!})', '\\}', content), B the backtick
escape_close_braces(s) ==
    Flatten([i \in 1..Len(s) |->
        IF s[i] = "}" /\ ~(i > 1 /\ s[i-1] \in {"bt", "{"}) /\ ~(i < Len(s) /\ s[i+1] = "}")
        THEN <<"\\","}">> ELSE <<s[i]>>])

fix_mdx_braces(content) == escape_close_braces(escape_open_braces(content))

\* re.sub(r'(?<![a-zA-Z])>(?![a-zA-Z])', '&gt;', content)
escape_gt_bare(s) ==
    Flatten([i \in 1..Len(s) |->
        IF s[i] = ">" /\ ~(i > 1 /\ IsAlpha(s[i-1])) /\ ~(i < Len(s) /\ IsAlpha(s[i+1]))
        THEN <<"&","g","t",";">> ELSE <<s[i]>>])

LongLineLen == 1000

KeptLineLen == 500

\* Step 6 of fix_mdx_file.
truncate_long_lines(content) ==
    LET lines == split(content, "\n")
    IN  join([n \in 1..Len(lines) |->
                IF Len(lines[n]) > LongLineLen
                THEN SubSeq(lines[n], 1, KeptLineLen) \o <<".",".","."," ","(","t","r","u","n","c","a","t","e","d",")">>
                ELSE lines[n]], <<"\n">>)

\* fix_mdx_file: the content written back.
fix_mdx_file(content) ==
    truncate_long_lines(
        RegexSubs(<<"style_block", "bare_url_angle">>,
                  escape_gt_bare(escape_lt(fix_mdx_braces(RegexSubs(<<"code_block">>, content))))))

(***************************************************************************)
(* fix_mdx_issues.py                                                        *)
(***************************************************************************)
RECURSIVE decimal(_)
\* str(n) for n >= 0
decimal(n) ==
    IF n < 10 THEN <<ToString(n)>> ELSE decimal(n \div 10) \o <<ToString(n % 10)>>

\* f"__CODE_BLOCK_{n}__"
code_block_mark(n) == <<"_","_","C","O","D","E","_","B","L","O","C","K","_">> \o decimal(n) \o <<"_","_">>

RECURSIVE save_code_blocks(_, _, _, _, _)
\* re.sub(pattern, save_code_block, content) from index i on, done the text
\* made so far: each match goes to the end of code_blocks and its mark takes
\* its place.
save_code_blocks(ends, s, i, done, code_blocks) ==
    IF \A p \in i..Len(s) : ends[p] = 0
    THEN [content |-> done \o From(s, i), code_blocks |-> code_blocks]
    ELSE save_code_blocks(ends, s, ends[MinOf({p \in i..Len(s) : ends[p] # 0})] + 1,
                          done \o SubSeq(s, i, MinOf({p \in i..Len(s) : ends[p] # 0}) - 1)
                               \o code_block_mark(Len(code_blocks)),
                          Append(code_blocks,
                                 SubSeq(s, MinOf({p \in i..Len(s) : ends[p] # 0}),
                                        ends[MinOf({p \in i..Len(s) : ends[p] # 0})])))

\* The code blocks of content that match pat are saved after those in saved.
save_more(pat, saved) ==
    save_code_blocks([p \in 1..Len(saved.content) |-> PatEnd(pat, saved.content, p)],
                     saved.content, 1, <<>>, saved.code_blocks)

RECURSIVE replace_text(_, _, _, _)
\* s[i:].replace(old, new), old not empty
replace_text(s, i, old, new) ==
    IF FirstMatch(s, i, old) = 0 THEN From(s, i)
    ELSE SubSeq(s, i, FirstMatch(s, i, old) - 1) \o new
         \o replace_text(s, FirstMatch(s, i, old) + Len(old), old, new)

RECURSIVE restore_code_blocks(_, _, _)
\* The loop that puts the code blocks back, from block i on.
restore_code_blocks(content, code_blocks, i) ==
    IF i > Len(code_blocks) THEN content
    ELSE restore_code_blocks(replace_text(content, 1, code_block_mark(i - 1), code_blocks[i]),
                             code_blocks, i + 1)

\* str.replace of both braces by their escaped forms
escape_all_braces(s) == replace(replace(s, "{", <<"\\","{">>), "}", <<"\\","}">>)

\* The braces of what is left are escaped and the code blocks put back.
restore_saved(saved) ==
    restore_code_blocks(escape_all_braces(saved.content), saved.code_blocks, 1)

\* fix_mdx_issues: the content returned, which main writes back when it differs.
fix_mdx_issues(content) ==
    RegexSubs(<<"img_tag", "amp">>,
              restore_saved(save_more("inline_code",
                                      save_more("fenced", [content |-> content,
                                                           code_blocks |-> <<>>]))))

(***************************************************************************)
(* complete_autodoc.py: AutodocGenerator._clean_docstring                   *)
(***************************************************************************)
\* A _clean_docstring that splits the docstring without stripping it.
autodoc_lines_unstripped(docstring) == split(docstring, "\n")

\* lines = docstring.strip().split('\n')
autodoc_lines(docstring) == split(strip(docstring), "\n")

\* What min() is taken over: the indentations of the lines after the first
\* that are not blank.
Indents(lines) == {Indent(lines[n]) : n \in {m \in 2..Len(lines) : strip(lines[m]) # <<>>}}

\* The lines with the common indentation removed; min_indent is there.
autodoc_dedent(lines, min_indent) ==
    IF min_indent > 0
    THEN [n \in 1..Len(lines) |->
            IF n > 1 /\ strip(lines[n]) # <<>> THEN From(lines[n], min_indent + 1) ELSE lines[n]]
    ELSE lines

\* _clean_docstring on the lines of a docstring that is not empty: min() raises
\* ValueError when there is nothing to take it over.
autodoc_clean_lines(lines) ==
    IF Len(lines) > 1 /\ Indents(lines) = {}
    THEN [raised |-> "ValueError", value |-> <<>>]
    ELSE [raised |-> "none",
          value |-> escape_all_braces(
                        join(IF Len(lines) > 1 THEN autodoc_dedent(lines, MinOf(Indents(lines)))
                             ELSE lines, <<"\n">>))]

\* _clean_docstring: what it raises, "none" when it returns, and what it returns.
autodoc_clean_docstring(docstring) ==
    IF docstring = <<>> THEN [raised |-> "none", value |-> <<>>]
    ELSE autodoc_clean_lines(autodoc_lines(docstring))

(***************************************************************************)
(* docs/jupyter/convert_md_to_mdx.py: convert_md_to_mdx                     *)
(***************************************************************************)
\* Steps 1 to 3 of convert_md_to_mdx: the substitutions, one after the other.
md_substituted(content) ==
    RegexSubs(<<"html_comment", "data_image", "standalone_lt", "standalone_gt",
                "spaced_tag", "self_closing">>, content)

\* Step 4: the title is group 1 of the first heading, or the stem of the path.
md_title(content, md_file_path) ==
    IF H1Matches(content) # {} THEN H1Group(content) ELSE path_stem(md_file_path)

\* Step 4: the frontmatter is put before a content that does not start with '---'.
md_with_frontmatter(content, md_file_path) ==
    IF startswith(content, <<"-","-","-">>) THEN content
    ELSE <<"-","-","-","\n","t","i","t","l","e",":"," ">> \o md_title(content, md_file_path)
         \o <<"\n","-","-","-","\n","\n">> \o content

\* convert_md_to_mdx: the content written.
convert_md_to_mdx(content, md_file_path) ==
    md_with_frontmatter(md_substituted(content), md_file_path)

\* A converter that writes its output over its input.
mdx_file_path_in_place(md_file_path) == md_file_path

\* md_file_path.replace('.md', '.mdx')
mdx_file_path(md_file_path) ==
    replace_text(md_file_path, 1, <<".","m","d">>, <<".","m","d","x">>)

(***************************************************************************)
(* scripts/add_frontmatter.py and scripts/add_frontmatter_md.py             *)
(***************************************************************************)
\* os.path.basename(path)
path_basename(path) ==
    IF FirstAt(path, 1, "/") = 0 THEN path
    ELSE From(path, MaxOf({i \in 1..Len(path) : path[i] = "/"}) + 1)

\* The title taken from the name of the file.
md_filename_title(md_file) ==
    title_case(replace(replace(replace_text(path_basename(md_file), 1, <<".","m","d">>, <<>>),
                               "_", <<" ">>), "-", <<" ">>))

\* The title before it is cleaned for YAML: group 1 of the first H1, stripped,
\* or the title taken from the name of the file.
md_frontmatter_title(content, md_file) ==
    IF H1Matches(content) # {} THEN strip(H1Group(content)) ELSE md_filename_title(md_file)

\* The last index of the line that index g of s is on.
LineEnd(s, g) == RunEnd(s, g, {"\n"})

\* re.sub(r'^#\s+.+\n?', '', content, count=1, flags=re.MULTILINE), done when
\* there is an H1: the heading goes, with the newline that ends its line.
remove_h1(content) ==
    IF H1Matches(content) = {} THEN content
    ELSE SubSeq(content, 1, MinOf(H1Matches(content)) - 1)
         \o From(content,
                 LineEnd(content, H1GroupStart(content, MinOf(H1Matches(content))))
                 + (IF LineEnd(content, H1GroupStart(content, MinOf(H1Matches(content))))
                          < Len(content) THEN 2 ELSE 1))

MinMdDescLen == 30

MdDefaultDescription == <<"J","u","p","y","t","e","r"," ","n","o","t","e","b","o","o","k"," ","e","x","a","m","p","l","e"," ","f","o","r"," ","P","i","x","e","l","t","a","b","l","e">>

\* re.sub(r'[*_bt]', '', clean_line), bt the backtick
remove_emphasis(line) == SelectSeq(line, LAMBDA c : c \notin {"*", "_", "bt"})

\* The lines of content a description can be taken from.
MdDescriptionLines(lines) ==
    {n \in 1..Len(lines) : /\ strip(lines[n]) # <<>>
                           /\ strip(lines[n])[1] # "#"
                           /\ Len(strip(lines[n])) > MinMdDescLen}

\* The description before it is cleaned for YAML, of the content that has
\* lost its H1.
md_description(content) ==
    IF MdDescriptionLines(split(content, "\n")) = {} THEN MdDefaultDescription
    ELSE yaml_truncated(remove_emphasis(strip(
             split(content, "\n")[MinOf(MdDescriptionLines(split(content, "\n")))])))

\* The frontmatter, title and description cleaned for YAML.
md_frontmatter(title, description) ==
    <<"-","-","-","\n","t","i","t","l","e",":"," ","\"">>
    \o replace(title, "\"", <<"\\","\"">>)
    \o <<"\"","\n","d","e","s","c","r","i","p","t","i","o","n",":"," ","\"">>
    \o replace(description, "\"", <<"\\","\"">>)
    \o <<"\"","\n","-","-","-","\n","\n">>

\* add_frontmatter_md.add_frontmatter_to_md: what is written back to md_file.
add_frontmatter_to_md(content, md_file) ==
    md_frontmatter(md_frontmatter_title(content, md_file), md_description(remove_h1(content)))
    \o remove_h1(content)

\* add_frontmatter.convert_md_to_mdx: what is written to the .mdx file.
add_frontmatter_mdx(content, md_file) ==
    md_frontmatter(md_frontmatter_title(content, md_file), md_description(remove_h1(content)))
    \o RegexSubs(<<"png_image", "style_block">>, remove_h1(content))

(***************************************************************************)
(* scripts/simple_convert.py                                                *)
(***************************************************************************)
\* os.path.basename(notebook_path).replace('.ipynb', '').replace('_', ' ').title()
simple_title(notebook_path) ==
    title_case(replace(replace_text(path_basename(notebook_path), 1,
                                    <<".","i","p","y","n","b">>, <<>>),
                       "_", <<" ">>))

\* The frontmatter and the heading that content starts with.
simple_header(notebook_path) ==
    <<"-","-","-","\n","t","i","t","l","e",":"," ","\"">>
    \o simple_title(notebook_path)
    \o <<"\"","\n","d","e","s","c","r","i","p","t","i","o","n",":"," ","\"">>
    \o MdDefaultDescription
    \o <<"\"","\n","-","-","-","\n","\n","#"," ">>
    \o simple_title(notebook_path)
    \o <<"\n","\n">>

\* content.count(c)
count_char(s, c) == Cardinality({i \in 1..Len(s) : s[i] = c})

SkipH1Newlines == 10

\* '\n'.join(source.split('\n')[1:])
without_first_line(source) == join(Tail(split(source, "\n")), <<"\n">>)

\* What the loop appends for a Markdown cell of that source.
simple_markdown(content, source) ==
    (IF count_char(content, "\n") < SkipH1Newlines /\ startswith(strip(source), <<"#"," ">>)
     THEN without_first_line(source) ELSE source)
    \o <<"\n","\n">>

OutputNote == <<"bt","bt","bt","\n","#"," ","O","u","t","p","u","t"," ","g","e","n","e","r","a","t","e","d"," ","(","s","e","e"," ","n","o","t","e","b","o","o","k"," ","f","o","r"," ","d","e","t","a","i","l","s",")","\n","bt","bt","bt","\n","\n">>

\* What the loop appends for a code cell.
simple_code(source, outputs) ==
    IF strip(source) = <<>> THEN <<>>
    ELSE <<"bt","bt","bt","p","y","t","h","o","n","\n">> \o source \o <<"\n","bt","bt","bt","\n","\n">>
         \o (IF outputs # <<>> THEN OutputNote ELSE <<>>)

\* One pass of the loop over the cells: content after the cell.
simple_cell(content, cell) ==
    content \o
    CASE cell.cell_type = "markdown" -> simple_markdown(content, Flatten(cell.source))
      [] cell.cell_type = "code" -> simple_code(Flatten(cell.source), cell.outputs)
      [] OTHER -> <<>>

RECURSIVE simple_cells(_, _)
simple_cells(content, cells) ==
    IF cells = <<>> THEN content ELSE simple_cells(simple_cell(content, Head(cells)), Tail(cells))

\* convert_notebook_simple: the content written to output_path.
convert_notebook_simple(notebook, notebook_path) ==
    simple_cells(simple_header(notebook_path), notebook.cells)

(***************************************************************************)
(* generate_function_docs.py                                                *)
(***************************************************************************)
\* The dictionary FUNCTION_MODULES, in its order.
FUNCTION_MODULES ==
    << [name |-> <<"a","n","t","h","r","o","p","i","c">>,
        description |-> <<"I","n","t","e","g","r","a","t","i","o","n"," ","w","i","t","h"," ","A","n","t","h","r","o","p","i","c"," ","C","l","a","u","d","e"," ","m","o","d","e","l","s">>],
       [name |-> <<"a","u","d","i","o">>,
        description |-> <<"A","u","d","i","o"," ","p","r","o","c","e","s","s","i","n","g"," ","f","u","n","c","t","i","o","n","s">>],
       [name |-> <<"b","e","d","r","o","c","k">>,
        description |-> <<"A","W","S"," ","B","e","d","r","o","c","k"," ","i","n","t","e","g","r","a","t","i","o","n">>],
       [name |-> <<"d","a","t","e">>,
        description |-> <<"D","a","t","e"," ","a","n","d"," ","t","i","m","e"," ","f","u","n","c","t","i","o","n","s">>],
       [name |-> <<"d","e","e","p","s","e","e","k">>,
        description |-> <<"D","e","e","p","S","e","e","k"," ","m","o","d","e","l"," ","i","n","t","e","g","r","a","t","i","o","n">>],
       [name |-> <<"f","i","r","e","w","o","r","k","s">>,
        description |-> <<"F","i","r","e","w","o","r","k","s"," ","A","I"," ","i","n","t","e","g","r","a","t","i","o","n">>],
       [name |-> <<"g","e","m","i","n","i">>,
        description |-> <<"G","o","o","g","l","e"," ","G","e","m","i","n","i"," ","i","n","t","e","g","r","a","t","i","o","n">>],
       [name |-> <<"g","r","o","q">>,
        description |-> <<"G","r","o","q"," ","i","n","t","e","g","r","a","t","i","o","n">>],
       [name |-> <<"h","u","g","g","i","n","g","f","a","c","e">>,
        description |-> <<"H","u","g","g","i","n","g"," ","F","a","c","e"," ","m","o","d","e","l"," ","i","n","t","e","g","r","a","t","i","o","n">>],
       [name |-> <<"j","s","o","n">>,
        description |-> <<"J","S","O","N"," ","m","a","n","i","p","u","l","a","t","i","o","n"," ","f","u","n","c","t","i","o","n","s">>],
       [name |-> <<"l","l","a","m","a","_","c","p","p">>,
        description |-> <<"L","l","a","m","a",".","c","p","p"," ","i","n","t","e","g","r","a","t","i","o","n">>],
       [name |-> <<"m","a","t","h">>,
        description |-> <<"M","a","t","h","e","m","a","t","i","c","a","l"," ","f","u","n","c","t","i","o","n","s">>],
       [name |-> <<"m","i","s","t","r","a","l","a","i">>,
        description |-> <<"M","i","s","t","r","a","l"," ","A","I"," ","i","n","t","e","g","r","a","t","i","o","n">>],
       [name |-> <<"o","l","l","a","m","a">>,
        description |-> <<"O","l","l","a","m","a"," ","i","n","t","e","g","r","a","t","i","o","n">>],
       [name |-> <<"r","e","p","l","i","c","a","t","e">>,
        description |-> <<"R","e","p","l","i","c","a","t","e"," ","i","n","t","e","g","r","a","t","i","o","n">>],
       [name |-> <<"s","t","r","i","n","g">>,
        description |-> <<"S","t","r","i","n","g"," ","m","a","n","i","p","u","l","a","t","i","o","n"," ","f","u","n","c","t","i","o","n","s">>],
       [name |-> <<"t","i","m","e","s","t","a","m","p">>,
        description |-> <<"T","i","m","e","s","t","a","m","p"," ","f","u","n","c","t","i","o","n","s">>],
       [name |-> <<"t","o","g","e","t","h","e","r">>,
        description |-> <<"T","o","g","e","t","h","e","r"," ","A","I"," ","i","n","t","e","g","r","a","t","i","o","n">>],
       [name |-> <<"v","i","d","e","o">>,
        description |-> <<"V","i","d","e","o"," ","p","r","o","c","e","s","s","i","n","g"," ","f","u","n","c","t","i","o","n","s">>],
       [name |-> <<"v","i","s","i","o","n">>,
        description |-> <<"C","o","m","p","u","t","e","r"," ","v","i","s","i","o","n"," ","f","u","n","c","t","i","o","n","s">>],
       [name |-> <<"w","h","i","s","p","e","r">>,
        description |-> <<"W","h","i","s","p","e","r"," ","s","p","e","e","c","h"," ","r","e","c","o","g","n","i","t","i","o","n"," ","f","u","n","c","t","i","o","n","s">>] >>

\* display_name of generate_function_module_doc
display_name(module_name) ==
    CASE module_name = <<"l","l","a","m","a","_","c","p","p">> -> <<"L","l","a","m","a",".","c","p","p">>
      [] module_name = <<"m","i","s","t","r","a","l","a","i">> -> <<"M","i","s","t","r","a","l"," ","A","I">>
      [] module_name = <<"o","p","e","n","a","i">> -> <<"O","p","e","n","A","I">>
      [] module_name = <<"h","u","g","g","i","n","g","f","a","c","e">> -> <<"H","u","g","g","i","n","g"," ","F","a","c","e">>
      [] OTHER -> title_case(replace(module_name, "_", <<" ">>))

generate_function_module_doc(module_name, description) ==
    <<"-","-","-","\n","t","i","t","l","e",":"," ">>
    \o display_name(module_name)
    \o <<"\n","s","i","d","e","b","a","r","_","p","o","s","i","t","i","o","n",":"," ","1","\n","-","-","-","\n","\n","#"," ">>
    \o display_name(module_name)
    \o <<"\n","\n">>
    \o description
    \o <<"\n","\n","*","D","o","c","u","m","e","n","t","a","t","i","o","n"," ","f","o","r"," ","s","p","e","c","i","f","i","c"," ","f","u","n","c","t","i","o","n","s"," ","i","n"," ","t","h","i","s"," ","m","o","d","u","l","e"," ","w","i","l","l"," ","b","e"," ","a","u","t","o","m","a","t","i","c","a","l","l","y"," ","g","e","n","e","r","a","t","e","d"," ","f","r","o","m"," ","t","h","e"," ","c","o","d","e","b","a","s","e",".","*","\n","\n","#","#"," ","U","s","a","g","e","\n","\n","bt","bt","bt","p","y","t","h","o","n","\n","i","m","p","o","r","t"," ","p","i","x","e","l","t","a","b","l","e"," ","a","s"," ","p","x","t","\n","\n","#"," ","A","c","c","e","s","s"," ","f","u","n","c","t","i","o","n","s"," ","f","r","o","m"," ","t","h","i","s"," ","m","o","d","u","l","e","\n","p","x","t",".","f","u","n","c","t","i","o","n","s",".">>
    \o module_name
    \o <<".","<","f","u","n","c","t","i","o","n","_","n","a","m","e",">","(",".",".",".",")","\n","bt","bt","bt","\n","\n">>

\* filename = f"functions-{module_name}.mdx"
module_filename(module_name) ==
    <<"f","u","n","c","t","i","o","n","s","-">> \o module_name \o <<".","m","d","x">>

\* existing_files as it would be were the extension looked for not the one
\* the pages are written with.
existing_files_md(files) == {path \in DOMAIN files : endswith(path, <<".","m","d">>)}

\* existing_files: the names of the .mdx files of docs_root
existing_files(files) == {path \in DOMAIN files : endswith(path, <<".","m","d","x">>)}

(***************************************************************************)
(* Inputs: the notebooks, texts and files the scripts are run on            *)
(***************************************************************************)
NoMetadata == [k \in {} |-> <<>>]

NoData == [k \in {} |-> <<>>]

Cell(type, source, outputs) == [cell_type |-> type, source |-> source, outputs |-> outputs]

Output(type, text, data, traceback) ==
    [output_type |-> type, text |-> text, data |-> data, traceback |-> traceback]

Notebook(metadata, cells) == [metadata |-> metadata, cells |-> cells]

\* The sequences of at most n elements of S.
SeqsUpTo(S, n) == UNION {[1..k -> S] : k \in 0..n}

MaxCells == 2

ImagePayload == <<"i","V","B","O","R">>

TitleCell == Cell("markdown", << <<"#"," ","T","i","t","l","e","\n">>, <<"H","e","l","l","o"," ","{","w","o","r","l","d","}">> >>, <<>>)

PrintCell == Cell("code", << <<"p","r","i","n","t","(","1",")">> >>, <<>>)

PlotCell ==
    Cell("code", << <<"p","l","o","t","(",")">> >>,
         << Output("stream", << <<"h","i","\n">> >>, NoData, <<>>),
            Output("display_data", <<>>,
                   [k \in {"text/plain", "image/png"} |->
                       IF k = "text/plain" THEN << <<"<","F","i","g","u","r","e",">">> >> ELSE ImagePayload],
                   <<>>) >>)

RawCell == Cell("raw", << <<"r","a","w"," ","{","r","}">> >>, <<>>)

ConvertCells == {TitleCell, PrintCell, PlotCell, RawCell}

ConvertNotebooks == {Notebook(NoMetadata, cells) : cells \in SeqsUpTo(ConvertCells, MaxCells)}

ConvertPaths == { <<"n","b","/","m","y","_","f","i","l","e",".","i","p","y","n","b">> }

\* Notebooks under other names: one whose safe name is that of nb/my_file.ipynb,
\* one whose safe name is its own, and one in the current directory.
RenamedPaths ==
    { <<"n","b","/","M","y","_","F","i","l","e",".","i","p","y","n","b">>,
      <<"n","b","/","m","y"," ","f","i","l","e",".","i","p","y","n","b">>,
      <<"m","y","_","f","i","l","e",".","i","p","y","n","b">> }

RenamedNotebooks == {Notebook(NoMetadata, <<RawCell>>)}

\* Files that are not notebooks: text that is not JSON, a JSON list, and a
\* JSON object with no "cells".
NotJson == [json |-> FALSE]

JsonList == [json |-> TRUE, items |-> <<>>]

NoCellsNotebook == [metadata |-> NoMetadata]

MalformedFiles == {NotJson, JsonList, NoCellsNotebook}

\* The files transmute_notebook is given, each under its path.
ConvertRuns ==
    {[file |-> nb, path |-> path] : nb \in ConvertNotebooks \cup MalformedFiles, path \in ConvertPaths}
    \cup {[file |-> nb, path |-> path] : nb \in RenamedNotebooks, path \in RenamedPaths}

\* Cells for direct calls of _transmute_cells.
MaxBodyCells == 3

PlainMarkdownCell == Cell("markdown", << <<"a","\n">>, <<"b">> >>, <<>>)

NewlineMarkdownCell == Cell("markdown", << <<"c","\n">> >>, <<>>)

HeadingCell == Cell("heading", << <<"h">> >>, <<>>)

BodyCellTemplates == {PlainMarkdownCell, NewlineMarkdownCell, PlotCell, RawCell, HeadingCell}

BodyCells == SeqsUpTo(BodyCellTemplates, MaxBodyCells)

\* Notebooks for direct calls of _extract_title.
MaxTitleCells == 2

MetadataTitle == <<"A">>

HeadingFirstCell == Cell("markdown", << <<"#"," ","B","\n">>, <<"t","e","x","t","\n","#"," ","B","3">> >>, <<>>)

HeadingLaterCell == Cell("markdown", << <<"#","#"," ","s","u","b","\n","#","\n">>, <<" "," ","B","2"," "," ","\n","m","o","r","e">> >>, <<>>)

NoHeadingCell == Cell("markdown", << <<"I","n","t","r","o"," ","{","t","e","x","t","}">> >>, <<>>)

CommentCell == Cell("code", << <<"#"," ","X">> >>, <<>>)

TitleCells == {HeadingFirstCell, HeadingLaterCell, NoHeadingCell, CommentCell}

TitleMetadata == {NoMetadata, [k \in {"title"} |-> MetadataTitle]}

TitleNotebooks ==
    {Notebook(m, cells) : m \in TitleMetadata, cells \in SeqsUpTo(TitleCells, MaxTitleCells)}

TitlePaths == { <<"n","b","/","m","y","_","f","i","l","e","-","n","a","m","e",".","i","p","y","n","b">>, <<"C",".","i","p","y","n","b">> }

\* Notebooks for direct calls of _extract_description and _create_frontmatter.
MaxDescCells == 2

MetadataDescription == <<"F","r","o","m"," ","<","b",">","m","e","t","a","d","a","t","a","<","/","b",">">>

LongLineCell ==
    Cell("markdown", << <<"#"," ","T","\n">>, <<"s","h","o","r","t","\n">>, <<" ", " ">> \o Rep("d", MinDescLen + 1) \o <<" ", "\n">>,
                        Rep("z", MinDescLen + 2) >>, <<>>)

ShortLineCell == Cell("markdown", << Rep("e", MinDescLen) >>, <<>>)

HeadingOnlyCell == Cell("markdown", << <<"#">> \o Rep("h", MinDescLen + 5) >>, <<>>)

LongCodeCell == Cell("code", << Rep("c", MinDescLen + 10) >>, <<>>)

LongRawCell == Cell("raw", << Rep("r", MinDescLen + 10) >>, <<>>)

DescCells == {LongLineCell, ShortLineCell, HeadingOnlyCell, LongCodeCell, LongRawCell}

DescMetadata == {NoMetadata, [k \in {"description"} |-> MetadataDescription]}

DescNotebooks ==
    {Notebook(m, cells) : m \in DescMetadata, cells \in SeqsUpTo(DescCells, MaxDescCells)}

FrontmatterTitles == { <<"T">>, <<"S","a","y"," ","\"","h","i","\"">>, <<"C",":","\\">> }

\* Texts for direct calls of _clean_yaml_string: a prefix, a run of x and a
\* suffix, with lengths on both sides of the truncation threshold.
MaxPad == MaxYamlLen + 2

PadLens == {0, 3} \cup ((MaxPad - 8)..MaxPad)

YamlPrefixes == { <<>>, <<" ">>, <<"<","b",">"," ">>, <<"\"">> }

YamlSuffixes == { <<>>, <<"\"">>, <<"\\">>, <<"\n"," ","z">> }

YamlTexts == {pre \o Rep("x", n) \o suf : pre \in YamlPrefixes, n \in PadLens, suf \in YamlSuffixes}

\* Outputs for direct calls of _transmute_outputs.
MaxOutputs == 2

PngData == [k \in {"image/png"} |-> ImagePayload]

PngHtmlData ==
    [k \in {"text/plain", "image/png", "text/html"} |->
        CASE k = "text/plain" -> << <<"<","F","i","g","u","r","e",">">> >>
          [] k = "image/png" -> ImagePayload
          [] OTHER -> << <<"<","i","m","g"," ","s","r","c","=","\"","d","a","t","a",":","i","m","a","g","e","/","p","n","g",";","b","a","s","e","6","4",",">> \o ImagePayload \o <<"\"",">">> >>]

JpegData == [k \in {"image/jpeg"} |-> ImagePayload]

PlainData == [k \in {"text/plain"} |-> << <<"4","2">> >>]

OutputTemplates ==
    { Output("stream", << <<"h","i","\n">> >>, NoData, <<>>),
      Output("execute_result", <<>>, PlainData, <<>>),
      Output("display_data", <<>>, PngData, <<>>),
      Output("display_data", <<>>, PngHtmlData, <<>>),
      Output("display_data", <<>>, JpegData, <<>>),
      Output("error", <<>>, NoData, << <<"T","r","a","c","e","b","a","c","k">>, <<"V","a","l","u","e","E","r","r","o","r",":"," ","b","a","d">> >>),
      Output("update_display_data", <<>>, PngData, <<>>),
      Output("execute_result", <<>>, NoData, <<>>) }

OutputLists == SeqsUpTo(OutputTemplates, MaxOutputs)

\* Texts for the sanitizers: at most MaxLines lines, each one of DocLines.
MaxLines == 3

MaxPasses == 2

DocLines ==
    { <<"{","x","}">>, <<"bt","{","}","bt">>, <<"a"," ","bt">>, Fence \o <<"p","y">>, Fence, <<"\\","{">>, <<"{","{"," ","a">> }

\* Lines of markup, put inside a fenced block by FencedTexts.
FencedLines ==
    { <<"a"," ","&"," ","b">>, <<"<","p",">","x">>, <<"x"," ","<"," ","1">> }

\* A fenced block of one line: the opening fence, the line, the closing fence.
FencedTexts == {join(<<Fence \o <<"p","y">>, line, Fence>>, "\n") : line \in FencedLines}

\* Well-formed HTML tags: a self-closing tag, and a tag whose last attribute
\* ends in a quote.
WellFormedTags ==
    { <<"<","b","r"," ","/",">">>, <<"<","a"," ","h","r","e","f","=","\"","x","\"",">">> }

\* Short texts of angle brackets and what may stand next to them.
MaxAngleLen == 3

AngleTexts == SeqsUpTo({"<", ">", "a", "/", "1"}, MaxAngleLen) \cup WellFormedTags

\* Texts of one HTML element: its opening tag with or without an attribute,
\* its body, and its closing tag when it is closed.
TagCases ==
    [name : {<<"p">>, <<"d","i","v">>, <<"p","r","e">>},
     attrs : {<<>>, <<" ","i","d","=","\"","a","\"">>},
     body : {<<"x">>, <<"<","b",">","x","<","/","b",">">>},
     closed : BOOLEAN]

TagText(c) ==
    <<"<">> \o c.name \o c.attrs \o <<">">> \o c.body
    \o (IF c.closed THEN <<"<","/">> \o c.name \o <<">">> ELSE <<>>)

TagTexts == {TagText(c) : c \in TagCases}

\* Texts with no brace, image or "&" in them, where code is within code or
\* beside the text of a placeholder: an inline span around a fenced block, and
\* the words of a placeholder before an inline span.
NestedCodeTexts ==
    { <<"a"," ","bt"," ","b","\n","bt","bt","bt","p","y","\n","x","\n","bt","bt","bt","\n","c"," ","bt"," ","d">>,
      <<"_","_","C","O","D","E","_","B","L","O","C","K","_","0","_","_"," ","bt","a","bt">> }

DocTexts ==
    {join(lines, "\n") : lines \in (SeqsUpTo(DocLines, MaxLines) \ {<<>>})}
    \cup FencedTexts \cup WellFormedTags \cup TagTexts \cup NestedCodeTexts

\* Markdown sources handed to _clean_markdown.
MarkdownTexts == FencedTexts

\* Docstrings: the empty one, and those of at most MaxLines lines, some of them
\* blank, indented or a fence.
DocstringLines == { <<"a">>, <<" "," ","b"," ","{","c","}">>, <<>>, <<" "," "," ">>, Fence }

DocstringTexts == {join(lines, "\n") : lines \in SeqsUpTo(DocstringLines, MaxLines)}

\* The files of a batch: at most MaxFiles of them, named in the order the
\* driver meets them, each with one of BatchTexts.
MaxFiles == 2

\* A byte that is no UTF-8 text: a file that holds it cannot be read as text.
BadByte == "xFF"

Decodable(text) == \A i \in 1..Len(text) : text[i] # BadByte

BatchTexts ==
    { <<"#"," ","T","\n","<","!","-","-"," ","c"," ","-","-",">","\n","x"," ","<"," ","{","y","}">>,
      <<"<","i","m","g"," ","s","r","c","=","\"","x","\"",">"," ","&"," ","{","z","}">>,
      <<"a"," ","&"," ","b">>,
      <<"o","k">>,
      <<BadByte>> }

\* The directory of the function pages before generate_function_docs.py is
\* run: some pages are there, written by hand, and other files may be.
StalePage == <<"o","l","d">>

GenTrees ==
    UNION {[paths -> {StalePage}] :
              paths \in SUBSET {module_filename(<<"a","n","t","h","r","o","p","i","c">>),
                                module_filename(<<"l","l","a","m","a","_","c","p","p">>),
                                module_filename(<<"w","h","i","s","p","e","r">>),
                                <<"i","n","d","e","x",".","m","d","x">>}}

\* Notebooks for simple_convert.py: at most MaxSimpleCells cells, Markdown
\* cells with and without a leading H1 and a code cell.
MaxSimpleCells == 3

SimpleCellTemplates ==
    { Cell("markdown", << <<"#"," ","A">> >>, <<>>),
      Cell("markdown", << <<"#"," ","B","\n">>, <<"b">> >>, <<>>),
      Cell("markdown", << <<"t","e","x","t">> >>, <<>>),
      Cell("code", << <<"x","=","1">> >>, <<Output("stream", << <<"h","i","\n">> >>, NoData, <<>>)>>) }

SimpleNotebooks == {Notebook(NoMetadata, cells) : cells \in SeqsUpTo(SimpleCellTemplates, MaxSimpleCells)}

\* The paths simple_convert.py takes when it is given none.
SimpleNotebookPath == <<"d","o","c","s","/","n","o","t","e","b","o","o","k","s","/","p","i","x","e","l","t","a","b","l","e","-","b","a","s","i","c","s",".","i","p","y","n","b">>

SimpleOutputPath == <<"d","o","c","s","3","/","d","o","c","s","/","e","x","a","m","p","l","e","s","/","p","i","x","e","l","t","a","b","l","e","-","b","a","s","i","c","s",".","m","d","x">>

\* The times a script is run over the same files.
MaxRuns == 2

BatchStems == << <<"a">>, <<"b",".","m","d">>, <<"c">>, <<"d">> >>

\* The extension of the files a driver looks for.
Extension(driver) == IF driver = "convert_md_to_mdx" THEN <<".","m","d">> ELSE <<".","m","d","x">>

NoFiles == [path \in {} |-> <<>>]

Trees(driver) ==
    UNION {[{BatchStems[i] \o Extension(driver) : i \in 1..n} -> BatchTexts] : n \in 0..MaxFiles}

\* The Markdown files the frontmatter scripts are run on: one with an H1 and
\* an image, one with no heading and a line long enough for a description,
\* one that cannot be read as text.
FrontmatterTexts ==
    { <<"#"," ","T","\n","!","[","p","n","g","]","(","a",".","p","n","g",")","\n">>,
      <<"M","y"," ","\"","n","o","t","e","s","\""," ","a","r","e"," ","l","o","n","g","e","r"," ","t","h","a","n"," ","t","h","i","r","t","y"," ","c","h","a","r","a","c","t","e","r","s">>,
      <<BadByte>> }

FrontmatterTrees ==
    UNION {[{BatchStems[i] \o <<".","m","d">> : i \in 1..n} -> FrontmatterTexts] :
              n \in 0..MaxFiles}

(***************************************************************************)
(* State                                                                    *)
(***************************************************************************)
VARIABLES
    script,         \* the script this behaviour runs
    pc,             \* where the running script is
    cell_counter,   \* JupyterToDocusaurusAlchemist.cell_counter
    notebook_path,  \* transmute_notebook: its argument
    notebook,       \* transmute_notebook: the notebook read
    title,          \* transmute_notebook: the title extracted
    mdx_content,    \* transmute_notebook: the frontmatter, then the whole text
    idx,            \* _transmute_cells: the cells done
    content,        \* _transmute_cells: its local content
    spans,          \* history: where each cell's text was put in content
    result,         \* history: what the last transmute_notebook wrote
    first_run,      \* history: the first transmute_notebook that finished
    effects,        \* history: what the running call did to the file system
    stdout,         \* what the running call or driver has printed
    error,          \* the exception the running call raised, or "none"
    call,           \* the last direct call of a method: its arguments and result
    doc,            \* the text of the file or docstring a sanitizer works on
    doc_input,      \* history: that text before the first pass
    doc_prev,       \* history: that text before the last pass
    passes,         \* history: the passes made over doc
    tree,           \* the files a batch driver works among: their text, by path
    tree_input,     \* history: those files before this run of the driver
    runs,           \* history: the runs of the script begun so far
    file_list,      \* md_files or mdx_files: the files the driver enumerated
    file_idx,       \* the files of file_list the loop is done with
    converted_files,\* main of convert_md_to_mdx.py: the paths it created
    attempted,      \* history: the files whose processing was begun
    failed          \* history: the files whose processing raised

vars == <<script, pc, cell_counter, notebook_path, notebook, title, mdx_content,
          idx, content, spans, result, first_run, effects, stdout, error,
          call, doc, doc_input, doc_prev, passes,
          tree, tree_input, runs, file_list, file_idx, converted_files, attempted, failed>>

convert_vars == <<cell_counter, notebook_path, notebook, title, mdx_content,
                  idx, content, spans, result, first_run, effects, stdout, error>>

doc_vars == <<doc, doc_input, doc_prev, passes>>

batch_vars == <<tree, tree_input, runs, file_list, file_idx, converted_files, attempted, failed>>

run_vars == <<notebook_path, notebook, title, mdx_content, idx, content, spans>>

NoNotebook == Notebook(NoMetadata, <<>>)

Sanitizers == {"clean_mdx", "fix_mdx", "fix_mdx_issues", "generate_autodoc"}

Docstrings == {"complete_autodoc"}

Drivers == {"convert_md_to_mdx", "fix_mdx_issues_main", "clean_mdx_main"}

\* The scripts the model runs more than once over the same files.
Generators == {"generate_function_docs"}

FrontmatterScripts == {"add_frontmatter", "add_frontmatter_md"}

Converters == {"simple_convert"}

Rerunnable == {"fix_mdx_issues_main", "add_frontmatter_md"} \cup Generators

Scripts ==
    {"jupyter_to_docusaurus", "alchemist_api"} \cup Sanitizers \cup Docstrings \cup Drivers
    \cup Generators \cup FrontmatterScripts \cup Converters

NoCall == [op |-> "none", notebook |-> NoNotebook, path |-> <<>>, text |-> <<>>,
           outputs |-> <<>>, cells |-> <<>>, ret |-> <<>>]

Init ==
    /\ script \in Scripts
    /\ pc = "start"
    /\ cell_counter = 0
    /\ notebook_path = <<>>
    /\ notebook = NoNotebook
    /\ title = <<>>
    /\ mdx_content = <<>>
    /\ idx = 0
    /\ content = <<>>
    /\ spans = <<>>
    /\ result = <<>>
    /\ first_run = <<>>
    /\ effects = <<>>
    /\ stdout = <<>>
    /\ error = "none"
    /\ call = NoCall
    /\ doc \in CASE script \in {"complete_autodoc", "generate_autodoc"} -> DocstringTexts
                 [] script \in Sanitizers -> DocTexts
                 [] OTHER -> {<<>>}
    /\ doc_input = doc
    /\ doc_prev = doc
    /\ passes = 0
    /\ tree \in CASE script \in Drivers -> Trees(script)
                  [] script = "generate_function_docs" -> GenTrees
                  [] script \in FrontmatterScripts -> FrontmatterTrees
                  [] OTHER -> {NoFiles}
    /\ tree_input = tree
    /\ runs = 1
    /\ file_list = <<>>
    /\ file_idx = 0
    /\ converted_files = <<>>
    /\ attempted = {}
    /\ failed = {}

(***************************************************************************)
(* jupyter_to_docusaurus.py: main and transmute_notebook                    *)
(***************************************************************************)
\* alchemist = JupyterToDocusaurusAlchemist()
Construct ==
    /\ script \in {"jupyter_to_docusaurus", "alchemist_api"}
    /\ pc \in {"start", "idle"}
    /\ pc' = "idle"
    /\ cell_counter' = 0
    /\ UNCHANGED <<script, run_vars, result, first_run, effects, stdout, error, call, doc_vars, batch_vars>>

\* A line printed: its fixed text, and the path, count or error it names.
Line(line, path, count, err) == [line |-> line, path |-> path, count |-> count, error |-> err]

\* The lines transmute_notebook prints.
Transmuting(path) == Line("Transmuting", path, 0, "none")

Complete(path) == Line("Transmutation complete", path, 0, "none")

\* transmute_notebook up to the call of _transmute_cells: the notebook is read,
\* the title extracted and the frontmatter made.
BeginNotebook(nb, path) ==
    /\ script = "jupyter_to_docusaurus"
    /\ pc = "idle"
    /\ DOMAIN nb = {"metadata", "cells"}
    /\ pc' = "cells"
    /\ effects' = <<>>
    /\ stdout' = <<Transmuting(path)>>
    /\ error' = "none"
    /\ notebook_path' = path
    /\ notebook' = nb
    /\ title' = extract_title(nb, path)
    /\ mdx_content' = create_frontmatter(extract_title(nb, path), nb)
    /\ idx' = 0
    /\ content' = <<>>
    /\ spans' = <<>>
    /\ result' = <<>>
    /\ UNCHANGED <<script, cell_counter, first_run, call, doc_vars, batch_vars>>

\* transmute_notebook on a file that is not a JSON object: json.load raises, or
\* _extract_title does at notebook.get.
LoadRaises(file, path) ==
    /\ script = "jupyter_to_docusaurus"
    /\ pc = "idle"
    /\ "json" \in DOMAIN file
    /\ pc' = "raised"
    /\ effects' = <<>>
    /\ stdout' = <<Transmuting(path)>>
    /\ error' = IF file.json THEN "AttributeError" ELSE "JSONDecodeError"
    /\ notebook_path' = path
    /\ notebook' = IF file.json THEN file ELSE notebook
    /\ result' = <<>>
    /\ UNCHANGED <<script, cell_counter, title, mdx_content, idx, content, spans,
                   first_run, call, doc_vars, batch_vars>>

\* A transmute_notebook that makes the output directory before it reads the cells.
CellsRaises_makedirs(nb, path) ==
    /\ script = "jupyter_to_docusaurus"
    /\ pc = "idle"
    /\ DOMAIN nb = {"metadata"}
    /\ pc' = "raised"
    /\ effects' = <<[op |-> "makedirs", path |-> path_dirname(path)]>>
    /\ stdout' = <<Transmuting(path)>>
    /\ error' = "KeyError"
    /\ notebook_path' = path
    /\ notebook' = nb
    /\ title' = extract_title(Notebook(nb.metadata, <<>>), path)
    /\ mdx_content' = create_frontmatter(title', Notebook(nb.metadata, <<>>))
    /\ result' = <<>>
    /\ UNCHANGED <<script, cell_counter, idx, content, spans, first_run, call, doc_vars, batch_vars>>

\* transmute_notebook on a JSON object with no "cells": the title is extracted
\* and the frontmatter made, and notebook['cells'] raises.
CellsRaises(nb, path) ==
    /\ script = "jupyter_to_docusaurus"
    /\ pc = "idle"
    /\ DOMAIN nb = {"metadata"}
    /\ pc' = "raised"
    /\ effects' = <<>>
    /\ stdout' = <<Transmuting(path)>>
    /\ error' = "KeyError"
    /\ notebook_path' = path
    /\ notebook' = nb
    /\ title' = extract_title(Notebook(nb.metadata, <<>>), path)
    /\ mdx_content' = create_frontmatter(title', Notebook(nb.metadata, <<>>))
    /\ result' = <<>>
    /\ UNCHANGED <<script, cell_counter, idx, content, spans, first_run, call, doc_vars, batch_vars>>

\* A loop that numbers the cells with the counter the object carries.
TransmuteCell_numbered ==
    /\ pc = "cells"
    /\ idx < Len(notebook.cells)
    /\ cell_counter' = (cell_counter + 1) % 3
    /\ content' = append_cell(content, notebook.cells[idx + 1]) \o <<ToString(cell_counter)>>
    /\ spans' = Append(spans, [from |-> Len(content) + 1, to |-> Len(content') - 2])
    /\ idx' = idx + 1
    /\ UNCHANGED <<script, pc, notebook_path, notebook, title,
                   mdx_content, result, first_run, effects, stdout, error, call, doc_vars, batch_vars>>

\* One pass of the loop of _transmute_cells.
TransmuteCell ==
    /\ pc = "cells"
    /\ idx < Len(notebook.cells)
    /\ content' = append_cell(content, notebook.cells[idx + 1])
    /\ spans' = Append(spans, [from |-> Len(content) + 1, to |-> Len(content') - 1])
    /\ idx' = idx + 1
    /\ UNCHANGED <<script, pc, cell_counter, notebook_path, notebook, title,
                   mdx_content, result, first_run, effects, stdout, error, call, doc_vars, batch_vars>>

\* The output path of the running transmute_notebook: output_dir is None.
output_path == generate_output_path(notebook_path, path_dirname(notebook_path))

\* transmute_notebook after _transmute_cells returns: the output path is derived,
\* its directory made and the text written.
FinishNotebook ==
    /\ pc = "cells"
    /\ idx = Len(notebook.cells)
    /\ path_dirname(output_path) # <<>>
    /\ pc' = "done"
    /\ effects' = <<[op |-> "makedirs", path |-> path_dirname(output_path)],
                    [op |-> "write", path |-> output_path]>>
    /\ stdout' = Append(stdout, Complete(output_path))
    /\ mdx_content' = mdx_content \o content
    /\ result' = <<[output_path |-> output_path,
                    mdx |-> mdx_content \o content,
                    first |-> first_run = <<>>]>>
    /\ first_run' = IF first_run = <<>>
                    THEN <<[notebook_path |-> notebook_path, notebook |-> notebook,
                            output_path |-> output_path,
                            mdx |-> mdx_content \o content]>>
                    ELSE first_run
    /\ UNCHANGED <<script, cell_counter, notebook_path, notebook, title, idx, content, spans,
                   error, call, doc_vars, batch_vars>>

\* transmute_notebook after _transmute_cells returns, for a notebook in the
\* current directory: the directory of the output path is '' and os.makedirs
\* raises.
MakedirsRaises ==
    /\ pc = "cells"
    /\ idx = Len(notebook.cells)
    /\ path_dirname(output_path) = <<>>
    /\ pc' = "raised"
    /\ error' = "FileNotFoundError"
    /\ mdx_content' = mdx_content \o content
    /\ UNCHANGED <<script, cell_counter, notebook_path, notebook, title, idx, content, spans,
                   result, first_run, effects, stdout, call, doc_vars, batch_vars>>

\* transmute_notebook returns to main, or raises to it, and its locals are gone.
ReturnNotebook ==
    /\ pc \in {"done", "raised"}
    /\ pc' = "idle"
    /\ notebook_path' = <<>>
    /\ notebook' = NoNotebook
    /\ title' = <<>>
    /\ mdx_content' = <<>>
    /\ idx' = 0
    /\ content' = <<>>
    /\ spans' = <<>>
    /\ result' = <<>>
    /\ effects' = <<>>
    /\ stdout' = <<>>
    /\ error' = "none"
    /\ UNCHANGED <<script, cell_counter, first_run, call, doc_vars, batch_vars>>

(***************************************************************************)
(* Direct calls of the methods of JupyterToDocusaurusAlchemist              *)
(***************************************************************************)
CallExtractTitle(nb, path) ==
    /\ script = "alchemist_api"
    /\ pc = "idle"
    /\ call' = [NoCall EXCEPT !.op = "extract_title", !.notebook = nb, !.path = path,
                              !.ret = extract_title(nb, path)]
    /\ pc' = "called"
    /\ UNCHANGED <<script, convert_vars, doc_vars, batch_vars>>

CallExtractDescription(nb) ==
    /\ script = "alchemist_api"
    /\ pc = "idle"
    /\ call' = [NoCall EXCEPT !.op = "extract_description", !.notebook = nb,
                              !.ret = extract_description(nb)]
    /\ pc' = "called"
    /\ UNCHANGED <<script, convert_vars, doc_vars, batch_vars>>

CallCleanYamlString(text) ==
    /\ script = "alchemist_api"
    /\ pc = "idle"
    /\ call' = [NoCall EXCEPT !.op = "clean_yaml_string", !.text = text,
                              !.ret = clean_yaml_string(text)]
    /\ pc' = "called"
    /\ UNCHANGED <<script, convert_vars, doc_vars, batch_vars>>

CallCreateFrontmatter(t, nb) ==
    /\ script = "alchemist_api"
    /\ pc = "idle"
    /\ call' = [NoCall EXCEPT !.op = "create_frontmatter", !.text = t, !.notebook = nb,
                              !.ret = create_frontmatter(t, nb)]
    /\ pc' = "called"
    /\ UNCHANGED <<script, convert_vars, doc_vars, batch_vars>>

CallTransmuteOutputs(outputs) ==
    /\ script = "alchemist_api"
    /\ pc = "idle"
    /\ call' = [NoCall EXCEPT !.op = "transmute_outputs", !.outputs = outputs,
                              !.ret = transmute_outputs(outputs)]
    /\ pc' = "called"
    /\ UNCHANGED <<script, convert_vars, doc_vars, batch_vars>>

CallTransmuteCells(cells) ==
    /\ script = "alchemist_api"
    /\ pc = "idle"
    /\ call' = [NoCall EXCEPT !.op = "transmute_cells", !.cells = cells,
                              !.ret = transmute_cells(cells)]
    /\ pc' = "called"
    /\ UNCHANGED <<script, convert_vars, doc_vars, batch_vars>>

CallCleanMarkdown(markdown) ==
    /\ script = "alchemist_api"
    /\ pc = "idle"
    /\ call' = [NoCall EXCEPT !.op = "clean_markdown", !.text = markdown,
                              !.ret = clean_markdown(markdown)]
    /\ pc' = "called"
    /\ UNCHANGED <<script, convert_vars, doc_vars, batch_vars>>

CallFixMdxSyntax(text) ==
    /\ script = "alchemist_api"
    /\ pc = "idle"
    /\ call' = [NoCall EXCEPT !.op = "fix_mdx_syntax", !.text = text,
                              !.ret = fix_mdx_syntax(text)]
    /\ pc' = "called"
    /\ UNCHANGED <<script, convert_vars, doc_vars, batch_vars>>

CallFixHtmlTags(text) ==
    /\ script = "alchemist_api"
    /\ pc = "idle"
    /\ call' = [NoCall EXCEPT !.op = "fix_html_tags", !.text = text,
                              !.ret = fix_html_tags(text)]
    /\ pc' = "called"
    /\ UNCHANGED <<script, convert_vars, doc_vars, batch_vars>>

\* The method has returned and its caller goes on.
ReturnCall ==
    /\ pc = "called"
    /\ pc' = "idle"
    /\ call' = NoCall
    /\ UNCHANGED <<script, convert_vars, doc_vars, batch_vars>>

(***************************************************************************)
(* The sanitizer scripts                                                    *)
(***************************************************************************)
\* clean_mdx.py is run on the file: it is read, cleaned and written back.
CleanMdxFile ==
    /\ script = "clean_mdx"
    /\ passes < MaxPasses
    /\ doc' = clean_mdx_file(doc)
    /\ doc_prev' = doc
    /\ passes' = passes + 1
    /\ UNCHANGED <<script, pc, convert_vars, call, doc_input, batch_vars>>

\* fix_mdx.py is run on the file: it is read, fixed and written back.
FixMdxFile ==
    /\ script = "fix_mdx"
    /\ passes < MaxPasses
    /\ doc' = fix_mdx_file(doc)
    /\ doc_prev' = doc
    /\ passes' = passes + 1
    /\ UNCHANGED <<script, pc, convert_vars, call, doc_input, batch_vars>>

\* fix_mdx_issues.py is run on the file: it is read, fixed and written back.
FixMdxIssues ==
    /\ script = "fix_mdx_issues"
    /\ passes < MaxPasses
    /\ doc' = fix_mdx_issues(doc)
    /\ doc_prev' = doc
    /\ passes' = passes + 1
    /\ UNCHANGED <<script, pc, convert_vars, call, doc_input, batch_vars>>

\* generate_autodoc.py cleans a docstring, once, on its way into a page.
CleanDocstring ==
    /\ script = "generate_autodoc"
    /\ passes = 0
    /\ doc' = clean_docstring(doc)
    /\ doc_prev' = doc
    /\ passes' = 1
    /\ UNCHANGED <<script, pc, convert_vars, call, doc_input, batch_vars>>

\* complete_autodoc.py cleans a docstring, once, on its way into a page.
AutodocCleanDocstring ==
    /\ script = "complete_autodoc"
    /\ passes = 0
    /\ doc' = autodoc_clean_docstring(doc).value
    /\ error' = autodoc_clean_docstring(doc).raised
    /\ doc_prev' = doc
    /\ passes' = 1
    /\ UNCHANGED <<script, pc, cell_counter, run_vars, result, first_run, effects, stdout,
                   call, doc_input, batch_vars>>

(***************************************************************************)
(* The batch drivers                                                        *)
(***************************************************************************)
\* glob.glob: the paths of tree with the extension, in the order of BatchStems.
glob(files, extension) ==
    SelectSeq([i \in 1..Len(BatchStems) |-> BatchStems[i] \o extension],
              LAMBDA path : path \in DOMAIN files)

\* open(path, 'w').write(text)
write_file(files, path, text) ==
    [q \in DOMAIN files \cup {path} |-> IF q = path THEN text ELSE files[q]]

\* main of convert_md_to_mdx.py up to its loop: with no .md file it prints that
\* and returns.
ConvertMain_Glob ==
    /\ script = "convert_md_to_mdx"
    /\ pc = "start"
    /\ file_list' = glob(tree, <<".","m","d">>)
    /\ pc' = IF file_list' = <<>> THEN "end" ELSE "loop"
    /\ stdout' = IF file_list' = <<>>
                 THEN <<Line("No .md files found", <<>>, 0, "none")>>
                 ELSE <<Line("Found", <<>>, Len(file_list'), "none")>>
    /\ UNCHANGED <<script, cell_counter, run_vars, result, first_run, effects, error, call,
                   doc_vars, tree, tree_input, runs, file_idx, converted_files, attempted, failed>>

\* One pass of the loop of main: convert_md_to_mdx is tried on the file; what
\* it raises is caught and printed.
ConvertMain_File ==
    /\ script = "convert_md_to_mdx"
    /\ pc = "loop"
    /\ file_idx < Len(file_list)
    /\ file_idx' = file_idx + 1
    /\ attempted' = attempted \cup {file_list[file_idx']}
    /\ IF Decodable(tree[file_list[file_idx']])
       THEN /\ tree' = write_file(tree, mdx_file_path(file_list[file_idx']),
                                  convert_md_to_mdx(tree[file_list[file_idx']],
                                                    file_list[file_idx']))
            /\ converted_files' = Append(converted_files, mdx_file_path(file_list[file_idx']))
            /\ stdout' = stdout \o <<Line("Converting", file_list[file_idx'], 0, "none"),
                                     Line("Created", mdx_file_path(file_list[file_idx']), 0, "none")>>
            /\ UNCHANGED failed
       ELSE /\ stdout' = stdout \o <<Line("Converting", file_list[file_idx'], 0, "none"),
                                     Line("Error converting", file_list[file_idx'], 0,
                                          "UnicodeDecodeError")>>
            /\ failed' = failed \cup {file_list[file_idx']}
            /\ UNCHANGED <<tree, converted_files>>
    /\ UNCHANGED <<script, pc, cell_counter, run_vars, result, first_run, effects, error, call,
                   doc_vars, tree_input, runs, file_list>>

\* main after its loop: the count of the files created, and their paths.
ConvertMain_Report ==
    /\ script = "convert_md_to_mdx"
    /\ pc = "loop"
    /\ file_idx = Len(file_list)
    /\ pc' = "end"
    /\ stdout' = stdout \o <<Line("Conversion complete! Created", <<>>, Len(converted_files), "none")>>
                        \o [i \in 1..Len(converted_files) |-> Line("", converted_files[i], 0, "none")]
                        \o <<Line("Note: Original .md files are preserved.", <<>>, 0, "none")>>
    /\ UNCHANGED <<script, cell_counter, run_vars, result, first_run, effects, error, call,
                   doc_vars, batch_vars>>

\* backup_path = file_path + ".backup"
backup_path(file_path) == file_path \o <<".","b","a","c","k","u","p">>

\* main of fix_mdx_issues.py up to its loop.
FixMain_Glob ==
    /\ script = "fix_mdx_issues_main"
    /\ pc = "start"
    /\ file_list' = glob(tree, <<".","m","d","x">>)
    /\ pc' = "loop"
    /\ stdout' = <<Line("Found", <<>>, Len(file_list'), "none")>>
    /\ UNCHANGED <<script, cell_counter, run_vars, result, first_run, effects, error, call,
                   doc_vars, tree, tree_input, runs, file_idx, converted_files, attempted, failed>>

\* One pass of the loop of main as it would be with no backup: a file that
\* fix_mdx_issues changed is overwritten at once.
FixMain_File_no_backup ==
    /\ script = "fix_mdx_issues_main"
    /\ pc = "loop"
    /\ file_idx < Len(file_list)
    /\ file_idx' = file_idx + 1
    /\ attempted' = attempted \cup {file_list[file_idx']}
    /\ tree' = IF Decodable(tree[file_list[file_idx']])
               THEN write_file(tree, file_list[file_idx'],
                               fix_mdx_issues(tree[file_list[file_idx']]))
               ELSE tree
    /\ failed' = IF Decodable(tree[file_list[file_idx']]) THEN failed
                 ELSE failed \cup {file_list[file_idx']}
    /\ stdout' = Append(stdout, Line("Checking", file_list[file_idx'], 0, "none"))
    /\ UNCHANGED <<script, pc, cell_counter, run_vars, result, first_run, effects, error, call,
                   doc_vars, tree_input, runs, file_list, converted_files>>

\* One pass of the loop of main, up to the backup: fix_mdx_issues is tried on
\* the file; what is raised is caught and printed; a file it did not change
\* is left alone; a file it changed is read again and copied to its backup.
FixMain_File ==
    /\ script = "fix_mdx_issues_main"
    /\ pc = "loop"
    /\ file_idx < Len(file_list)
    /\ file_idx' = file_idx + 1
    /\ attempted' = attempted \cup {file_list[file_idx']}
    /\ IF ~Decodable(tree[file_list[file_idx']])
       THEN /\ stdout' = stdout \o <<Line("Checking", file_list[file_idx'], 0, "none"),
                                     Line("Error processing", file_list[file_idx'], 0,
                                          "UnicodeDecodeError")>>
            /\ failed' = failed \cup {file_list[file_idx']}
            /\ UNCHANGED <<tree, pc>>
       ELSE IF fix_mdx_issues(tree[file_list[file_idx']]) = tree[file_list[file_idx']]
       THEN /\ stdout' = stdout \o <<Line("Checking", file_list[file_idx'], 0, "none"),
                                     Line("No fixes needed", file_list[file_idx'], 0, "none")>>
            /\ UNCHANGED <<tree, pc, failed>>
       ELSE /\ tree' = write_file(tree, backup_path(file_list[file_idx']),
                                  tree[file_list[file_idx']])
            /\ pc' = "backed_up"
            /\ stdout' = Append(stdout, Line("Checking", file_list[file_idx'], 0, "none"))
            /\ UNCHANGED failed
    /\ UNCHANGED <<script, cell_counter, run_vars, result, first_run, effects, error, call,
                   doc_vars, tree_input, runs, file_list, converted_files>>

\* The rest of that pass for a file that was changed: the fixed content takes
\* the place of the file's.
FixMain_Write ==
    /\ script = "fix_mdx_issues_main"
    /\ pc = "backed_up"
    /\ tree' = write_file(tree, file_list[file_idx], fix_mdx_issues(tree[file_list[file_idx]]))
    /\ pc' = "loop"
    /\ stdout' = Append(stdout, Line("Fixed", file_list[file_idx], 0, "none"))
    /\ UNCHANGED <<script, cell_counter, run_vars, result, first_run, effects, error, call,
                   doc_vars, tree_input, runs, file_list, file_idx, converted_files,
                   attempted, failed>>

\* main after its loop: the count of the files it found.
FixMain_Report ==
    /\ script = "fix_mdx_issues_main"
    /\ pc = "loop"
    /\ file_idx = Len(file_list)
    /\ pc' = "end"
    /\ stdout' = Append(stdout, Line("Completed processing", <<>>, Len(file_list), "none"))
    /\ UNCHANGED <<script, cell_counter, run_vars, result, first_run, effects, error, call,
                   doc_vars, batch_vars>>

\* main of generate_function_docs.py up to its loop: docs_root is there, and
\* existing_files is taken from it as it is now.
GenMain_Glob ==
    /\ script = "generate_function_docs"
    /\ pc = "start"
    /\ pc' = "loop"
    /\ UNCHANGED <<script, cell_counter, run_vars, result, first_run, effects, stdout, error,
                   call, doc_vars, batch_vars>>

\* One pass of the loop of main: the page of the module is generated and
\* written when no file of its name was among existing_files.
GenMain_Module ==
    /\ script = "generate_function_docs"
    /\ pc = "loop"
    /\ file_idx < Len(FUNCTION_MODULES)
    /\ file_idx' = file_idx + 1
    /\ IF module_filename(FUNCTION_MODULES[file_idx'].name) \notin existing_files(tree_input)
       THEN /\ tree' = write_file(tree, module_filename(FUNCTION_MODULES[file_idx'].name),
                                  generate_function_module_doc(
                                      FUNCTION_MODULES[file_idx'].name,
                                      FUNCTION_MODULES[file_idx'].description))
            /\ effects' = Append(effects,
                                 [op |-> "write",
                                  path |-> module_filename(FUNCTION_MODULES[file_idx'].name)])
            /\ stdout' = Append(stdout,
                                Line("Generated", module_filename(FUNCTION_MODULES[file_idx'].name),
                                     0, "none"))
       ELSE UNCHANGED <<tree, effects, stdout>>
    /\ UNCHANGED <<script, pc, cell_counter, run_vars, result, first_run, error, call,
                   doc_vars, tree_input, runs, file_list, converted_files, attempted, failed>>

\* main returns after the last module.
GenMain_End ==
    /\ script = "generate_function_docs"
    /\ pc = "loop"
    /\ file_idx = Len(FUNCTION_MODULES)
    /\ pc' = "end"
    /\ UNCHANGED <<script, cell_counter, run_vars, result, first_run, effects, stdout, error,
                   call, doc_vars, batch_vars>>

\* simple_convert.py is run with no argument: the notebook is read, converted
\* and written to the output path, whose directory is made first.
SimpleConvert(nb) ==
    /\ script = "simple_convert"
    /\ pc = "start"
    /\ call' = [NoCall EXCEPT !.op = "convert_notebook_simple", !.notebook = nb,
                              !.path = SimpleNotebookPath,
                              !.ret = convert_notebook_simple(nb, SimpleNotebookPath)]
    /\ effects' = <<[op |-> "makedirs", path |-> path_dirname(SimpleOutputPath)],
                    [op |-> "write", path |-> SimpleOutputPath]>>
    /\ stdout' = <<Line("Converted", SimpleOutputPath, 0, "none")>>
    /\ pc' = "end"
    /\ UNCHANGED <<script, cell_counter, run_vars, result, first_run, error, doc_vars,
                   batch_vars>>

\* os.remove(path)
remove_file(files, path) == [q \in DOMAIN files \ {path} |-> files[q]]

\* add_frontmatter.py and add_frontmatter_md.py: the glob of their loop.
FrontmatterMain_Glob ==
    /\ script \in FrontmatterScripts
    /\ pc = "start"
    /\ file_list' = glob(tree, <<".","m","d">>)
    /\ pc' = "loop"
    /\ UNCHANGED <<script, cell_counter, run_vars, result, first_run, effects, stdout, error,
                   call, doc_vars, tree, tree_input, runs, file_idx, converted_files,
                   attempted, failed>>

\* add_frontmatter.convert_md_to_mdx as it would be were the .md file removed
\* as soon as it is read.
AddMain_Open_removes_first ==
    /\ script = "add_frontmatter"
    /\ pc = "loop"
    /\ file_idx < Len(file_list)
    /\ Decodable(tree[file_list[file_idx + 1]])
    /\ file_idx' = file_idx + 1
    /\ attempted' = attempted \cup {file_list[file_idx']}
    /\ tree' = remove_file(write_file(tree, mdx_file_path(file_list[file_idx']), <<>>),
                           file_list[file_idx'])
    /\ pc' = "opened"
    /\ UNCHANGED <<script, cell_counter, run_vars, result, first_run, effects, stdout, error,
                   call, doc_vars, tree_input, runs, file_list, converted_files, failed>>

\* add_frontmatter.convert_md_to_mdx up to the opening of the .mdx file: the
\* .md file is read, and what that raises ends the script, which catches
\* nothing; the .mdx file is opened for writing, which leaves it empty.
AddMain_Open ==
    /\ script = "add_frontmatter"
    /\ pc = "loop"
    /\ file_idx < Len(file_list)
    /\ file_idx' = file_idx + 1
    /\ attempted' = attempted \cup {file_list[file_idx']}
    /\ IF ~Decodable(tree[file_list[file_idx']])
       THEN /\ pc' = "crashed"
            /\ error' = "UnicodeDecodeError"
            /\ failed' = failed \cup {file_list[file_idx']}
            /\ UNCHANGED tree
       ELSE /\ tree' = write_file(tree, mdx_file_path(file_list[file_idx']), <<>>)
            /\ pc' = "opened"
            /\ UNCHANGED <<error, failed>>
    /\ UNCHANGED <<script, cell_counter, run_vars, result, first_run, effects, stdout,
                   call, doc_vars, tree_input, runs, file_list, converted_files>>

\* f.write(frontmatter + content)
AddMain_Write ==
    /\ script = "add_frontmatter"
    /\ pc = "opened"
    /\ tree' = write_file(tree, mdx_file_path(file_list[file_idx]),
                          add_frontmatter_mdx(tree[file_list[file_idx]], file_list[file_idx]))
    /\ pc' = "written"
    /\ UNCHANGED <<script, cell_counter, run_vars, result, first_run, effects, stdout, error,
                   call, doc_vars, tree_input, runs, file_list, file_idx, converted_files,
                   attempted, failed>>

\* f.write(frontmatter + content) where the encoding of the locale, which open
\* takes when it is given none, has no chart emoji: the write raises and the
\* script ends.
AddMain_WriteRaises ==
    /\ script = "add_frontmatter"
    /\ pc = "opened"
    /\ Contains(add_frontmatter_mdx(tree[file_list[file_idx]], file_list[file_idx]),
                <<ChartEmoji>>)
    /\ pc' = "crashed"
    /\ error' = "UnicodeEncodeError"
    /\ failed' = failed \cup {file_list[file_idx]}
    /\ UNCHANGED <<script, cell_counter, run_vars, result, first_run, effects, stdout,
                   call, doc_vars, tree, tree_input, runs, file_list, file_idx,
                   converted_files, attempted>>

\* os.remove(md_file), and the line printed.
AddMain_Remove ==
    /\ script = "add_frontmatter"
    /\ pc = "written"
    /\ tree' = remove_file(tree, file_list[file_idx])
    /\ converted_files' = Append(converted_files, mdx_file_path(file_list[file_idx]))
    /\ stdout' = Append(stdout, Line("Converted", file_list[file_idx], 0, "none"))
    /\ pc' = "loop"
    /\ UNCHANGED <<script, cell_counter, run_vars, result, first_run, effects, error,
                   call, doc_vars, tree_input, runs, file_list, file_idx, attempted, failed>>

\* One pass of the loop of add_frontmatter_md.py: the file is read and written
\* back with its frontmatter; what the reading raises ends the script.
AddMdMain_File ==
    /\ script = "add_frontmatter_md"
    /\ pc = "loop"
    /\ file_idx < Len(file_list)
    /\ file_idx' = file_idx + 1
    /\ attempted' = attempted \cup {file_list[file_idx']}
    /\ IF ~Decodable(tree[file_list[file_idx']])
       THEN /\ pc' = "crashed"
            /\ error' = "UnicodeDecodeError"
            /\ failed' = failed \cup {file_list[file_idx']}
            /\ UNCHANGED <<tree, stdout>>
       ELSE /\ tree' = write_file(tree, file_list[file_idx'],
                                  add_frontmatter_to_md(tree[file_list[file_idx']],
                                                        file_list[file_idx']))
            /\ stdout' = Append(stdout, Line("Added frontmatter to", file_list[file_idx'],
                                             0, "none"))
            /\ UNCHANGED <<pc, error, failed>>
    /\ UNCHANGED <<script, cell_counter, run_vars, result, first_run, effects,
                   call, doc_vars, tree_input, runs, file_list, converted_files>>

\* The loop of either script is over.
FrontmatterMain_End ==
    /\ script \in FrontmatterScripts
    /\ pc = "loop"
    /\ file_idx = Len(file_list)
    /\ pc' = "end"
    /\ UNCHANGED <<script, cell_counter, run_vars, result, first_run, effects, stdout, error,
                   call, doc_vars, batch_vars>>

\* The script is run once more, on the files as the run before left them.
RunAgain ==
    /\ script \in Rerunnable
    /\ pc = "end"
    /\ runs < MaxRuns
    /\ runs' = runs + 1
    /\ pc' = "start"
    /\ tree_input' = tree
    /\ file_list' = <<>>
    /\ file_idx' = 0
    /\ converted_files' = <<>>
    /\ attempted' = {}
    /\ failed' = {}
    /\ stdout' = <<>>
    /\ effects' = <<>>
    /\ UNCHANGED <<script, cell_counter, run_vars, result, first_run, error, call,
                   doc_vars, tree>>

\* main of clean_mdx.py up to its loop: the index files are left out.
CleanMain_Glob ==
    /\ script = "clean_mdx_main"
    /\ pc = "start"
    /\ file_list' = SelectSeq(glob(tree, <<".","m","d","x">>),
                              LAMBDA path : ~endswith(path, <<"i","n","d","e","x",".","m","d","x">>))
    /\ pc' = "loop"
    /\ stdout' = <<Line("Cleaning MDX files", <<>>, Len(file_list'), "none")>>
    /\ UNCHANGED <<script, cell_counter, run_vars, result, first_run, effects, error, call,
                   doc_vars, tree, tree_input, runs, file_idx, converted_files, attempted, failed>>

\* One pass of the loop of main: clean_mdx_file reads the file, cleans it and
\* writes it back. Nothing catches what it raises: main ends there.
CleanMain_File ==
    /\ script = "clean_mdx_main"
    /\ pc = "loop"
    /\ file_idx < Len(file_list)
    /\ file_idx' = file_idx + 1
    /\ attempted' = attempted \cup {file_list[file_idx']}
    /\ IF ~Decodable(tree[file_list[file_idx']])
       THEN /\ pc' = "crashed"
            /\ error' = "UnicodeDecodeError"
            /\ failed' = failed \cup {file_list[file_idx']}
            /\ UNCHANGED <<tree, stdout>>
       ELSE /\ tree' = write_file(tree, file_list[file_idx'],
                                  clean_mdx_file(tree[file_list[file_idx']]))
            /\ stdout' = stdout \o <<Line("Cleaning", file_list[file_idx'], 0, "none"),
                                     Line("Cleaned", <<>>, 0, "none")>>
            /\ UNCHANGED <<pc, error, failed>>
    /\ UNCHANGED <<script, cell_counter, run_vars, result, first_run, effects, call,
                   doc_vars, tree_input, runs, file_list, converted_files>>

\* main after its loop.
CleanMain_Report ==
    /\ script = "clean_mdx_main"
    /\ pc = "loop"
    /\ file_idx = Len(file_list)
    /\ pc' = "end"
    /\ stdout' = Append(stdout, Line("All files cleaned!", <<>>, 0, "none"))
    /\ UNCHANGED <<script, cell_counter, run_vars, result, first_run, effects, error, call,
                   doc_vars, batch_vars>>

Next ==
    \/ Construct
    \/ \E run \in ConvertRuns : BeginNotebook(run.file, run.path)
    \/ \E run \in ConvertRuns : LoadRaises(run.file, run.path)
    \/ \E run \in ConvertRuns : CellsRaises(run.file, run.path)
    \/ TransmuteCell
    \/ FinishNotebook
    \/ MakedirsRaises
    \/ ReturnNotebook
    \/ \E nb \in TitleNotebooks, path \in TitlePaths : CallExtractTitle(nb, path)
    \/ \E nb \in DescNotebooks : CallExtractDescription(nb)
    \/ \E text \in YamlTexts : CallCleanYamlString(text)
    \/ \E t \in FrontmatterTitles, nb \in DescNotebooks : CallCreateFrontmatter(t, nb)
    \/ \E outputs \in OutputLists : CallTransmuteOutputs(outputs)
    \/ \E cells \in BodyCells : CallTransmuteCells(cells)
    \/ \E markdown \in MarkdownTexts : CallCleanMarkdown(markdown)
    \/ \E text \in AngleTexts : CallFixMdxSyntax(text)
    \/ \E text \in TagTexts : CallFixHtmlTags(text)
    \/ ReturnCall
    \/ CleanMdxFile
    \/ FixMdxFile
    \/ FixMdxIssues
    \/ CleanDocstring
    \/ AutodocCleanDocstring
    \/ ConvertMain_Glob
    \/ ConvertMain_File
    \/ ConvertMain_Report
    \/ FixMain_Glob
    \/ FixMain_File
    \/ FixMain_Write
    \/ FixMain_Report
    \/ CleanMain_Glob
    \/ CleanMain_File
    \/ CleanMain_Report
    \/ \E nb \in SimpleNotebooks : SimpleConvert(nb)
    \/ FrontmatterMain_Glob
    \/ AddMain_Open
    \/ AddMain_Write
    \/ AddMain_WriteRaises
    \/ AddMain_Remove
    \/ AddMdMain_File
    \/ FrontmatterMain_End
    \/ GenMain_Glob
    \/ GenMain_Module
    \/ GenMain_End
    \/ RunAgain

Spec == Init /\ [][Next]_vars

(***************************************************************************)
(* Properties                                                               *)
(***************************************************************************)
\* C1: the text _transmute_cells builds is the cells' renderings in input
\* order. Every cell done so far has its rendering, whole, at the place it was
\* appended; the places of two cells i < j do not overlap and i's comes first;
\* and the text written is the frontmatter followed by that content.
CellOrderPreserved ==
    /\ Len(spans) = idx
    /\ \A i \in 1..Len(spans) :
          /\ spans[i].to <= Len(content)
          /\ SubSeq(content, spans[i].from, spans[i].to) = transmute_cell(notebook.cells[i])
    /\ \A i, j \in 1..Len(spans) : i < j => spans[i].to < spans[j].from
    /\ pc = "done" => /\ idx = Len(notebook.cells)
                      /\ endswith(result[1].mdx, content)

\* A notebook of an image-bearing code cell followed by a Markdown cell has been
\* converted.
CellOrderWitness ==
    /\ pc = "done"
    /\ notebook.cells = <<PlotCell, TitleCell>>
    /\ Len(spans) = 2

\* C2: converting the same notebook again, on the same object or on a new one,
\* whatever was converted in between, writes the same text to the same path as
\* the first conversion did.
SameInputSameOutput ==
    (/\ pc = "done"
     /\ first_run # <<>>
     /\ first_run[1].notebook = notebook
     /\ first_run[1].notebook_path = notebook_path)
    => /\ result[1].mdx = first_run[1].mdx
       /\ result[1].output_path = first_run[1].output_path

\* A notebook with cells has been converted for the second time or later.
SameInputWitness ==
    /\ pc = "done"
    /\ ~result[1].first
    /\ first_run[1].notebook = notebook
    /\ first_run[1].notebook_path = notebook_path
    /\ Len(notebook.cells) = MaxCells

\* The titles the notebooks of TitleNotebooks show, read off their texts.
HeadingOf(cell) ==
    CASE cell = HeadingFirstCell -> <<"B">>
      [] cell = HeadingLaterCell -> <<"B","2">>
      [] OTHER -> <<>>

FilenameTitleOf(path) ==
    CASE path = <<"n","b","/","m","y","_","f","i","l","e","-","n","a","m","e",".","i","p","y","n","b">> -> <<"M","y"," ","F","i","l","e"," ","N","a","m","e">>
      [] OTHER -> <<"C">>

FirstMarkdown(nb) ==
    LET md == {i \in 1..Len(nb.cells) : nb.cells[i].cell_type = "markdown"}
    IN  IF md = {} THEN <<>> ELSE <<nb.cells[MinOf(md)]>>

DescriptionLineOf(cell) ==
    IF cell = LongLineCell THEN Rep("d", MinDescLen + 1) ELSE <<>>

\* C4: the description is the metadata description when there is one;
\* otherwise the first qualifying line of the first Markdown cell that has one,
\* cells of other types being passed over; otherwise the default.
DescriptionFirstMatch ==
    call.op = "extract_description"
    => LET cells == call.notebook.cells
           hits == {i \in 1..Len(cells) : DescriptionLineOf(cells[i]) # <<>>}
       IN  IF "description" \in DOMAIN call.notebook.metadata
           THEN call.ret = call.notebook.metadata["description"]
           ELSE IF hits # {}
           THEN call.ret = DescriptionLineOf(cells[MinOf(hits)])
           ELSE call.ret = DefaultDescription

\* The extractor passed over a code cell with a long line and a Markdown cell
\* whose only line is exactly at the threshold, and returned the default.
DescriptionWitness ==
    /\ call.op = "extract_description"
    /\ call.notebook.metadata = NoMetadata
    /\ call.notebook.cells = <<LongCodeCell, ShortLineCell>>
    /\ call.ret = DefaultDescription

\* C5 as stated: a value longer than the limit is emitted as its first 147
\* characters and the marker, 150 characters in all; a value within the limit
\* is emitted whole. The value is the text as cleaned, the one whose length
\* _clean_yaml_string tests.
DescriptionTruncation ==
    call.op = "clean_yaml_string"
    => LET cleaned == yaml_escaped(call.text)
       IN  IF Len(cleaned) > MaxYamlLen
           THEN /\ call.ret = SubSeq(cleaned, 1, KeptYamlLen) \o Ellipsis
                /\ Len(call.ret) = MaxYamlLen
           ELSE call.ret = strip(cleaned)

\* The lines of a text that lie between an opening and a closing fence line.
FencesBefore(lines, n) == Cardinality({m \in 1..(n - 1) : IsFenceLine(lines[m])})

InsideFence(lines, n) ==
    /\ ~IsFenceLine(lines[n])
    /\ Odd(FencesBefore(lines, n))
    /\ \E m \in (n + 1)..Len(lines) : IsFenceLine(lines[m])

OutsideFence(lines, n) == ~IsFenceLine(lines[n]) /\ ~Odd(FencesBefore(lines, n))

BracesEscaped(line) ==
    \A i \in 1..Len(line) : line[i] \in {"{", "}"} => (i > 1 /\ line[i-1] = "\\")

\* C6 as stated, of one pass of each sanitizer: a line inside a fenced block
\* comes out as it went in, and in a text with no backtick outside its fence
\* lines, so with no inline code at all, every brace of a line outside the
\* fenced blocks comes out with a backslash before it.
BraceProtection ==
    passes = 1
    => LET in == split(doc_input, "\n")
           out == split(doc, "\n")
           no_inline == \A m \in 1..Len(in) : IsFenceLine(in[m]) \/ ~Contains(in[m], <<"bt">>)
       IN  /\ Len(out) = Len(in)
           /\ \A n \in 1..Len(in) :
                 /\ InsideFence(in, n) => out[n] = in[n]
                 /\ (no_inline /\ OutsideFence(in, n)) => BracesEscaped(out[n])

\* C7 as stated: a second pass of a script over a file changes nothing.
SanitizerIdempotent == passes = 2 => doc = doc_prev

\* The texts an output carries besides its image.
OtherTexts(output) ==
    {Flatten(output.text), join(output.traceback, <<"\n">>)}
    \cup {Flatten(output.data[k]) : k \in DOMAIN output.data \ {"image/png", "image/jpeg"}}

HasImage(output) ==
    output.output_type \in {"execute_result", "display_data"} /\ "image/png" \in DOMAIN output.data

\* The number of places in s where lit starts.
Occurrences(s, lit) == Cardinality({i \in 1..Len(s) : MatchAt(s, i, lit)})

\* C8 as stated: the rendering of outputs never has the payload of an image of
\* theirs in it, and has the placeholder once for each output with an image.
ImagePayloadAbsent ==
    call.op = "transmute_outputs"
    => /\ \A i \in 1..Len(call.outputs) :
             HasImage(call.outputs[i]) => ~Contains(call.ret, call.outputs[i].data["image/png"])
       /\ Occurrences(call.ret, ImagePlaceholder)
             = Cardinality({i \in 1..Len(call.outputs) : HasImage(call.outputs[i])})

\* C8, amended: the value under the image key is never what puts the payload in
\* the rendering. Where the rendering has the payload, another text of the
\* outputs, copied as it is, has it; and the placeholder is there once for each
\* execute_result or display_data with the image/png key.
ImagePayloadNotCopied ==
    call.op = "transmute_outputs"
    => /\ \A i \in 1..Len(call.outputs) :
             (HasImage(call.outputs[i]) /\ Contains(call.ret, call.outputs[i].data["image/png"]))
             => \E j \in 1..Len(call.outputs) :
                   \E text \in OtherTexts(call.outputs[j]) :
                       /\ Contains(text, call.outputs[i].data["image/png"])
                       /\ Contains(call.ret, text)
       /\ Occurrences(call.ret, ImagePlaceholder)
             = Cardinality({i \in 1..Len(call.outputs) : HasImage(call.outputs[i])})

\* Two outputs were rendered, one with an image alone and one whose HTML also
\* holds the payload: two placeholders, and the payload within the HTML.
ImagePayloadWitness ==
    /\ call.op = "transmute_outputs"
    /\ call.outputs = << Output("display_data", <<>>, PngData, <<>>),
                         Output("display_data", <<>>, PngHtmlData, <<>>) >>
    /\ Occurrences(call.ret, ImagePlaceholder) = 2
    /\ Contains(call.ret, ImagePayload)

\* C9 as stated: the notebook of a Markdown cell "# Title / Hello {world}" and a
\* code cell print(1) gets the title Title, and its body has the braces of the
\* prose escaped, none left bare, and print(1) in a fenced block.
MarkdownBracesEscaped ==
    (pc = "done" /\ notebook.cells = <<TitleCell, PrintCell>>)
    => /\ title = <<"T","i","t","l","e">>
       /\ Contains(content, <<"\\","{","w","o","r","l","d","\\","}">>)
       /\ ~Contains(content, <<"{","w","o","r","l","d","}">>)
       /\ Contains(content, <<"bt","bt","bt","p","y","t","h","o","n","\n","p","r","i","n","t","(","1",")","\n","bt","bt","bt">>)

\* The values between the quotes of the two lines of the frontmatter.
TitleValue(frontmatter) ==
    LET line == split(frontmatter, "\n")[2] IN SubSeq(line, Len(<<"t","i","t","l","e",":"," ","\"">>) + 1, Len(line) - 1)

DescriptionValue(frontmatter) ==
    LET line == split(frontmatter, "\n")[3] IN SubSeq(line, Len(<<"d","e","s","c","r","i","p","t","i","o","n",":"," ","\"">>) + 1, Len(line) - 1)

RECURSIVE TrailingBackslashes(_)
TrailingBackslashes(v) ==
    IF v # <<>> /\ v[Len(v)] = "\\" THEN 1 + TrailingBackslashes(SubSeq(v, 1, Len(v) - 1)) ELSE 0

YamlSafe(v) ==
    /\ \A i \in 1..Len(v) : v[i] = "\"" => (i > 1 /\ v[i-1] = "\\")
    /\ \A i \in 1..Len(v) : v[i] \notin {"\n", "\r"}
    /\ ~Odd(TrailingBackslashes(v))

\* C10 as stated: the title and the description in the frontmatter have every
\* double quote escaped, no line break, and no backslash at the end that would
\* escape the closing quote.
FrontmatterValuesSafe ==
    call.op = "create_frontmatter"
    => /\ Len(split(call.ret, "\n")) = 6
       /\ YamlSafe(TitleValue(call.ret))
       /\ YamlSafe(DescriptionValue(call.ret))
(***************************************************************************)
(* Malformed notebooks, skipped cells and the order of what is rendered     *)
(***************************************************************************)
\* C12: when transmute_notebook fails on a file that is not a JSON object or
\* has no "cells", it has raised to its caller, written no file and made no
\* directory; only a notebook with its cells gets as far as an output.
MalformedInputHardFailure ==
    /\ (pc = "raised" /\ error \in {"JSONDecodeError", "AttributeError", "KeyError"})
        => (effects = <<>> /\ result = <<>> /\ stdout = <<Transmuting(notebook_path)>>)
    /\ pc \in {"cells", "done"} => DOMAIN notebook = {"metadata", "cells"}

MalformedInputWitness ==
    /\ pc = "raised"
    /\ error = "KeyError"
    /\ "cells" \notin DOMAIN notebook
    /\ mdx_content # <<>>

\* The cells whose text went into the output.
RenderedCells(cells) == {i \in 1..Len(cells) : transmute_cell(cells[i]) # <<>>}

\* The cells the converter has counted or logged as skipped: what its counter
\* holds and the lines it printed about a skipped cell.
SkippedCounted ==
    cell_counter + Cardinality({i \in 1..Len(stdout) : stdout[i].line = "Skipped"})

\* C13: after _transmute_cells, the cells rendered and the cells counted as
\* skipped are together all the cells, and no markdown, code or raw cell is
\* skipped.
NoCellDroppedSilently ==
    call.op = "transmute_cells" =>
        /\ Cardinality(RenderedCells(call.cells)) + SkippedCounted = Len(call.cells)
        /\ \A i \in 1..Len(call.cells) :
              call.cells[i].cell_type \in {"markdown", "code", "raw"}
                  => i \in RenderedCells(call.cells)

\* An output _transmute_outputs has something to show for.
Renderable(output) ==
    \/ output.output_type \in {"stream", "error"}
    \/ /\ output.output_type \in {"execute_result", "display_data"}
       /\ DOMAIN output.data \cap {"text/plain", "image/png", "text/html"} # {}

\* C14: an output of unknown type, or one with none of the three payload keys,
\* adds nothing to what _transmute_outputs returns: the result is that of the
\* other outputs alone.
UnrenderableOutputsSkipped ==
    call.op = "transmute_outputs" =>
        call.ret = transmute_outputs(SelectSeq(call.outputs, Renderable))

UnrenderableOutputsWitness ==
    /\ call.op = "transmute_outputs"
    /\ Len(call.outputs) = 2
    /\ ~Renderable(call.outputs[1])
    /\ Renderable(call.outputs[2])
    /\ call.ret # <<>>

TrailingNewlines(s) == Len(s) - MaxOf({0} \cup {i \in 1..Len(s) : s[i] # "\n"})

LeadingNewlines(s) == MinOf({Len(s) + 1} \cup {i \in 1..Len(s) : s[i] # "\n"}) - 1

\* The blank lines between the text of cell j and the text before it.
BlankLinesBefore(cells, j) ==
    TrailingNewlines(transmute_cells(SubSeq(cells, 1, j - 1)))
    + LeadingNewlines(transmute_cell(cells[j])) - 1

\* C15: in what _transmute_cells returns, the text of a cell and the text of
\* the cell rendered before it are one blank line apart.
OneBlankLineBetweenCells ==
    call.op = "transmute_cells" =>
        \A j \in RenderedCells(call.cells) :
            (\E i \in RenderedCells(call.cells) : i < j)
                => BlankLinesBefore(call.cells, j) = 1

\* The representations of one output, in the order they are to appear.
Representations(output) ==
    IF output.output_type \in {"execute_result", "display_data"}
    THEN (IF "text/plain" \in DOMAIN output.data
          THEN << <<"bt","bt","bt","\n">> \o Flatten(output.data["text/plain"]) \o FenceClose >>
          ELSE <<>>)
         \o (IF "image/png" \in DOMAIN output.data THEN <<ImagePlaceholder>> ELSE <<>>)
         \o (IF "text/html" \in DOMAIN output.data
             THEN << <<"bt","bt","bt","h","t","m","l","\n">> \o Flatten(output.data["text/html"]) \o FenceClose >>
             ELSE <<>>)
    ELSE <<transmute_output(output)>>

\* The fenced source of a code cell.
SourceBlock(cell) ==
    <<"bt","bt","bt","p","y","t","h","o","n","\n">> \o Flatten(cell.source) \o FenceClose

\* The text of cell i in what _transmute_cells returned.
CellText(cells, ret, i) ==
    SubSeq(ret, Len(transmute_cells(SubSeq(cells, 1, i - 1))) + 1,
           Len(transmute_cells(SubSeq(cells, 1, i))) - 1)

\* C16: the outputs are rendered in their order, each as its plain text, then
\* its image placeholder, then its HTML, one for each key it has; and the text
\* of a code cell is its fenced source and then its outputs.
CodeCellFragmentOrder ==
    /\ call.op = "transmute_outputs" =>
          call.ret = Flatten([i \in 1..Len(call.outputs) |->
                                 Flatten(Representations(call.outputs[i]))])
    /\ call.op = "transmute_cells" =>
          \A i \in 1..Len(call.cells) :
              call.cells[i].cell_type = "code" =>
                  CellText(call.cells, call.ret, i)
                      = SourceBlock(call.cells[i])
                        \o Flatten([k \in 1..Len(call.cells[i].outputs) |->
                                       Flatten(Representations(call.cells[i].outputs[k]))])

CodeCellFragmentWitness ==
    /\ call.op = "transmute_outputs"
    /\ Len(call.outputs) = 2
    /\ Len(Representations(call.outputs[1])) = 3
    /\ call.outputs[2].output_type = "stream"

\* The name of the file at a path.
path_name(path) == From(path, MaxOf({0} \cup {i \in 1..Len(path) : path[i] = "/"}) + 1)

\* C20: two notebooks of different names converted into one directory are
\* written to different paths, and each conversion writes one file.
DistinctNamesDistinctOutputs ==
    pc = "done" =>
        /\ Cardinality({i \in 1..Len(effects) : effects[i].op = "write"}) = 1
        /\ (/\ path_name(first_run[1].notebook_path) # path_name(notebook_path)
            /\ path_dirname(first_run[1].notebook_path) = path_dirname(notebook_path))
               => result[1].output_path # first_run[1].output_path

(***************************************************************************)
(* The batch drivers: failures, reports and what is left of the inputs      *)
(***************************************************************************)
Range(f) == {f[i] : i \in DOMAIN f}

\* The lines printed about a failure of the file at path.
ErrorLines(path) == {i \in 1..Len(stdout) : stdout[i].path = path /\ stdout[i].error # "none"}

\* C11: when a batch driver is over, it has come to the end of its loop, it has
\* begun the processing of every file it enumerated, and each failure was
\* caught and printed.
BatchSurvivesFailure ==
    (script \in Drivers /\ pc \in {"end", "crashed"}) =>
        /\ pc = "end"
        /\ attempted = Range(file_list)
        /\ \A path \in failed : ErrorLines(path) # {}

\* The counts the driver prints at its end: of the files done, and of the
\* files that failed.
ReportedCompleted ==
    {stdout[i].count : i \in {j \in 1..Len(stdout) :
        stdout[j].line \in {"Conversion complete! Created", "Completed processing"}}}

ReportedFailed ==
    {stdout[i].count : i \in {j \in 1..Len(stdout) : stdout[j].line = "Failed"}}

\* C18: at the end of its run a driver that catches failures has printed the
\* count of the files that succeeded and the count of those that failed, and
\* the error of each failure; the two counts add up to the files enumerated.
BatchReportsCounts ==
    (script \in {"convert_md_to_mdx", "fix_mdx_issues_main"} /\ pc = "end" /\ file_list # <<>>) =>
        /\ ReportedCompleted = {Cardinality(attempted \ failed)}
        /\ ReportedFailed = {Cardinality(failed)}
        /\ \A path \in failed : ErrorLines(path) # {}
        /\ Cardinality(attempted \ failed) + Cardinality(failed) = Len(file_list)

\* C19: all along a run of convert_md_to_mdx.py every .md file is where it
\* was, with the text it had, and what was written for a file went to another
\* path than the file's.
InputsPreserved ==
    script = "convert_md_to_mdx" =>
        /\ \A path \in DOMAIN tree_input :
              path \in DOMAIN tree /\ tree[path] = tree_input[path]
        /\ \A i \in 1..Len(converted_files) :
              /\ converted_files[i] \notin DOMAIN tree_input
              /\ converted_files[i] \in DOMAIN tree

InputsPreservedWitness ==
    /\ script = "convert_md_to_mdx"
    /\ pc = "end"
    /\ failed # {}
    /\ Len(converted_files) = 1
    /\ converted_files[1] = <<"b",".","m","d","x",".","m","d","x">>
    /\ tree[converted_files[1]] # tree[<<"b",".","m","d",".","m","d">>]

\* C17: a sanitizer that has run has raised nothing and has left a text; and
\* when _clean_docstring has more than one line, one of the lines after the
\* first is not blank, so that its min() has something to be taken over.
SanitizationNeverRaises ==
    (script \in Sanitizers \cup Docstrings /\ passes > 0) =>
        /\ error = "none"
        /\ DOMAIN doc = 1..Len(doc)
        /\ (script = "complete_autodoc" /\ Len(autodoc_lines(doc_prev)) > 1)
              => Indents(autodoc_lines(doc_prev)) # {}

\* A docstring of three lines, the last two blank, has been cleaned.
SanitizationWitness ==
    /\ script = "complete_autodoc"
    /\ passes = 1
    /\ Len(split(doc_input, "\n")) = 3
    /\ \A n \in 2..3 : strip(split(doc_input, "\n")[n]) = <<>>
    /\ Len(split(doc_input, "\n")[3]) > 0
    /\ doc # <<>>

(***************************************************************************)
(* The fix passes: what they leave alone and what they rewrite              *)
(***************************************************************************)
\* The lines of in that lie inside a fenced block are the same lines of out.
FencedSame(in, out) ==
    /\ Len(split(out, "\n")) = Len(split(in, "\n"))
    /\ \A n \in 1..Len(split(in, "\n")) :
          InsideFence(split(in, "\n"), n) => split(out, "\n")[n] = split(in, "\n")[n]

\* C21: what fix_mdx_issues.py and clean_mdx.py write back after one pass, and
\* what _clean_markdown returns, has every line that was inside a fenced block
\* of the input as it was.
FencedRegionsUnmodified ==
    /\ (script \in {"clean_mdx", "fix_mdx_issues"} /\ passes = 1) => FencedSame(doc_input, doc)
    /\ call.op = "clean_markdown" => FencedSame(call.text, call.ret)

\* C22: after one pass of clean_mdx.py, a line outside the fenced blocks that
\* has no backtick in it has every one of its braces escaped, whatever the
\* lines before it hold.
InlineCodeScopedToLine ==
    (script = "clean_mdx" /\ passes = 1)
    => /\ Len(split(doc, "\n")) = Len(split(doc_input, "\n"))
       /\ \A n \in 1..Len(split(doc_input, "\n")) :
             (OutsideFence(split(doc_input, "\n"), n)
                 /\ ~Contains(split(doc_input, "\n")[n], <<"bt">>))
             => BracesEscaped(split(doc, "\n")[n])

\* The text with its bare brackets replaced by their entities: a "<" that is
\* not followed by a letter, "/" or "!", and a ">" that has no letter before
\* or after it.
BareBracketsEscaped(s) ==
    Flatten([i \in 1..Len(s) |->
        IF s[i] = "<" /\ ~(i < Len(s) /\ (IsAlpha(s[i+1]) \/ s[i+1] \in {"/", "!"}))
        THEN <<"&","l","t",";">>
        ELSE IF s[i] = ">" /\ ~(i > 1 /\ IsAlpha(s[i-1])) /\ ~(i < Len(s) /\ IsAlpha(s[i+1]))
        THEN <<"&","g","t",";">>
        ELSE <<s[i]>>])

\* C23: _fix_mdx_syntax replaces the bare brackets of a text and no others, and
\* a well-formed HTML tag goes through it, and through a pass of fix_mdx.py,
\* as it is.
OnlyBareBracketsEscaped ==
    /\ call.op = "fix_mdx_syntax" => call.ret = BareBracketsEscaped(call.text)
    /\ (call.op = "fix_mdx_syntax" /\ call.text \in WellFormedTags) => call.ret = call.text
    /\ (script = "fix_mdx" /\ passes = 1 /\ doc_input \in WellFormedTags) => doc = doc_input

\* What tag fixing is to make of the element: without its opening tag when it
\* is one of the six tags and is not closed, as it is otherwise.
TagFixed(c) ==
    IF c.name \in Range(UnclosedTagNames) /\ ~c.closed THEN c.body ELSE TagText(c)

\* C24: _fix_html_tags, and clean_mdx.py with its fix_html_tags, take the whole
\* opening tag off an element of the six tags that is not closed, and leave a
\* closed element, and an element of another tag, as it is.
UnterminatedTagsStrippedWhole ==
    \A c \in TagCases :
        /\ (call.op = "fix_html_tags" /\ call.text = TagText(c)) => call.ret = TagFixed(c)
        /\ (script = "clean_mdx" /\ passes = 1 /\ doc_input = TagText(c)) => doc = TagFixed(c)

(***************************************************************************)
(* Runs and re-runs over the same files                                     *)
(***************************************************************************)
\* fix_mdx_issues reports a modification of the text.
NeedsFixes(text) == Decodable(text) /\ fix_mdx_issues(text) # text

\* The loop of main is done with the file in this run.
FixDone(path) ==
    \E i \in 1..file_idx : file_list[i] = path /\ ~(i = file_idx /\ pc = "backed_up")

\* The file at path is in both trees or in neither, with the same text.
SameFile(path, before, after) ==
    /\ path \in DOMAIN after <=> path \in DOMAIN before
    /\ path \in DOMAIN after => after[path] = before[path]

\* C25: in every run of fix_mdx_issues.py, and at every point of it, a file
\* that differs from what it was before the run has its backup, which holds
\* what the file was before the run; a file the loop is done with, when it
\* needed fixes, holds its fixed content; and a file that needs no fixes is as
\* it was, and so is its backup, if it has one from a run before.
BackupBeforeOverwrite ==
    script = "fix_mdx_issues_main" =>
        \A path \in Range(glob(tree_input, <<".","m","d","x">>)) :
            /\ tree[path] # tree_input[path]
                  => /\ backup_path(path) \in DOMAIN tree
                     /\ tree[backup_path(path)] = tree_input[path]
            /\ (FixDone(path) /\ NeedsFixes(tree_input[path]))
                  => /\ tree[path] = fix_mdx_issues(tree_input[path])
                     /\ backup_path(path) \in DOMAIN tree
                     /\ tree[backup_path(path)] = tree_input[path]
            /\ ~NeedsFixes(tree_input[path])
                  => /\ tree[path] = tree_input[path]
                     /\ SameFile(backup_path(path), tree_input, tree)

\* The second run is over: it changed one file, whose backup now holds what
\* the first run had written, and it left alone another file, which the first
\* run had changed and whose backup still holds what it was before that.
BackupWitness ==
    /\ script = "fix_mdx_issues_main"
    /\ runs = 2
    /\ pc = "end"
    /\ \E path \in DOMAIN tree_input :
          /\ backup_path(path) \in DOMAIN tree_input
          /\ tree[path] # tree_input[path]
          /\ tree[backup_path(path)] = tree_input[path]
          /\ tree[backup_path(path)] # tree_input[backup_path(path)]
    /\ \E path \in DOMAIN tree_input :
          /\ backup_path(path) \in DOMAIN tree_input
          /\ tree[path] = tree_input[path]
          /\ tree[backup_path(path)] # tree[path]
          /\ tree[backup_path(path)] = tree_input[backup_path(path)]

\* C26: a run of generate_function_docs.py leaves every file that was there
\* before it as it was and writes to none of them; when it is over, every
\* module of FUNCTION_MODULES has its page; and a run after the first writes
\* nothing.
GeneratesOnlyMissing ==
    script = "generate_function_docs" =>
        /\ \A path \in DOMAIN tree_input :
              path \in DOMAIN tree /\ tree[path] = tree_input[path]
        /\ \A i \in 1..Len(effects) : effects[i].path \notin DOMAIN tree_input
        /\ pc = "end" => \A m \in 1..Len(FUNCTION_MODULES) :
                            module_filename(FUNCTION_MODULES[m].name) \in DOMAIN tree
        /\ runs > 1 => effects = <<>>

\* The second run is over and has written nothing; one page is the one that
\* was there before the first run, another is one the first run generated.
GeneratesOnlyMissingWitness ==
    /\ script = "generate_function_docs"
    /\ runs = 2
    /\ pc = "end"
    /\ effects = <<>>
    /\ tree[module_filename(<<"l","l","a","m","a","_","c","p","p">>)] = StalePage
    /\ tree[module_filename(<<"d","a","t","e">>)]
          = generate_function_module_doc(<<"d","a","t","e">>, FUNCTION_MODULES[4].description)

\* The .md file is there with the text it had before the run.
MdIntact(path) == path \in DOMAIN tree /\ tree[path] = tree_input[path]

\* The .mdx file of the .md file is there, at another path, and holds the whole
\* conversion of the text the .md file had.
MdxComplete(path) ==
    /\ mdx_file_path(path) # path
    /\ mdx_file_path(path) \in DOMAIN tree
    /\ tree[mdx_file_path(path)] = add_frontmatter_mdx(tree_input[path], path)

\* C27: at every point of a run of add_frontmatter.py each .md file that was
\* there before it is intact or has its complete .mdx file; a .md file that
\* is gone has its complete .mdx file; and when the script ends on a failure,
\* the .md file it was at is intact.
NoDocumentLost ==
    script = "add_frontmatter" =>
        /\ \A path \in Range(glob(tree_input, <<".","m","d">>)) :
              /\ MdIntact(path) \/ MdxComplete(path)
              /\ path \notin DOMAIN tree => MdxComplete(path)
        /\ pc = "crashed" => MdIntact(file_list[file_idx])

\* The script has converted one file, whose .md file is gone, and has ended on
\* the failure of the write for the next, whose .mdx file is empty.
NoDocumentLostWitness ==
    /\ script = "add_frontmatter"
    /\ pc = "crashed"
    /\ error = "UnicodeEncodeError"
    /\ file_idx = 2
    /\ file_list[1] \notin DOMAIN tree
    /\ MdxComplete(file_list[1])
    /\ tree[mdx_file_path(file_list[2])] = <<>>

\* C28: a run of add_frontmatter_md.py after the first leaves each file it is
\* done with as the run before left it, with its one frontmatter block, its
\* title and its body.
FrontmatterIdempotent ==
    (script = "add_frontmatter_md" /\ runs > 1) =>
        \A i \in 1..file_idx : tree[file_list[i]] = tree_input[file_list[i]]

(***************************************************************************)
(* simple_convert.py                                                        *)
(***************************************************************************)
\* The Markdown cells of the notebook.
MarkdownCells(cells) == {i \in 1..Len(cells) : cells[i].cell_type = "markdown"}

\* What cell i is to add: a Markdown cell its source and a blank line, the
\* first Markdown cell without its leading H1 line; a code cell what the loop
\* adds for it.
SimpleCellText(cells, i) ==
    IF cells[i].cell_type = "markdown"
    THEN (IF i = MinOf(MarkdownCells(cells)) /\ startswith(Flatten(cells[i].source), <<"#"," ">>)
          THEN without_first_line(Flatten(cells[i].source))
          ELSE Flatten(cells[i].source))
         \o <<"\n","\n">>
    ELSE simple_code(Flatten(cells[i].source), cells[i].outputs)

\* C29: what convert_notebook_simple writes is its header, then for each cell
\* what the cell is to add: the leading H1 line of the first Markdown cell is
\* the only line left out, and every other Markdown cell is there whole.
OnlyFirstH1Skipped ==
    call.op = "convert_notebook_simple" =>
        call.ret = simple_header(call.path)
                   \o Flatten([i \in 1..Len(call.notebook.cells) |->
                                  SimpleCellText(call.notebook.cells, i)])

(***************************************************************************)
(* fix_mdx_issues.py: the code blocks saved and restored                    *)
(***************************************************************************)
\* C30: what fix_mdx_issues.py writes has no placeholder of a code block that
\* the input did not have; and a text with nothing to fix outside its code
\* comes out as it went in, each code block back where it was, once.
CodeBlocksRestored ==
    (script = "fix_mdx_issues" /\ passes = 1) =>
        /\ \A n \in 0..Len(doc_input) :
              Contains(doc, code_block_mark(n)) => Contains(doc_input, code_block_mark(n))
        /\ doc_input \in NestedCodeTexts => doc = doc_input

====
